---- MODULE Spec2Model ----
(***************************************************************************)
(* State-machine model of the ol-zarr tile source (src/src/ZarrTile.js):   *)
(* the view state (current time index, current bands), the derived cache,  *)
(* the observable properties kept by the OpenLayers base object, and the   *)
(* static worker pool used by the tile loader.                             *)
(*                                                                         *)
(* JavaScript values are encoded with uniform record shapes so that every  *)
(* comparison the code makes (===, !==, <, typeof, Number.isInteger,       *)
(* Array.isArray, truthiness) is computed rather than assumed.             *)
(***************************************************************************)
EXTENDS Integers, Sequences, FiniteSets, TLC

(***************************************************************************)
(* Bounds of the model.                                                    *)
(***************************************************************************)
MaxRequests == 2      \* tile-loader calls that dispatch work in one run
MaxZoomInput == 3     \* zoom arguments range over 0..MaxZoomInput
MaxStep == 2          \* nextTimesteps/previousTimesteps arguments 0..MaxStep

(***************************************************************************)
(* JavaScript scalar values: [kind, val].                                  *)
(*   "int"   an integer-valued number val                                  *)
(*   "frac"  the non-integer number val + 1/2                              *)
(*   "nan"   NaN          "inf"  +Infinity                                 *)
(*   "str"   a string     "null" null      "undef" undefined               *)
(***************************************************************************)
Num(x) == [kind |-> "int", val |-> x]
Frac(x) == [kind |-> "frac", val |-> x]
NaNV == [kind |-> "nan", val |-> 0]
InfV == [kind |-> "inf", val |-> 0]
StrV == [kind |-> "str", val |-> 0]
NullV == [kind |-> "null", val |-> 0]
UndefV == [kind |-> "undef", val |-> 0]

\* typeof v === 'number'
TypeofNumber(v) == v.kind \in {"int", "frac", "nan", "inf"}

\* Number.isInteger(v)
NumberIsInteger(v) == v.kind = "int"

\* v ?? d  (nullish coalescing)
Coalesce(v, d) == IF v.kind \in {"null", "undef"} THEN d ELSE v

Min2(a, b) == IF a <= b THEN a ELSE b
Max2(a, b) == IF a >= b THEN a ELSE b

\* Math.min(...s) / Math.max(...s) over a non-empty sequence of integers
SeqMin(s) == CHOOSE m \in {s[i] : i \in DOMAIN s} : \A i \in DOMAIN s : m <= s[i]
SeqMax(s) == CHOOSE m \in {s[i] : i \in DOMAIN s} : \A i \in DOMAIN s : m >= s[i]

\* JavaScript arrays are 0-based; At0(s, i) is s[i] for an in-range index
At0(s, i) == s[i + 1]

(***************************************************************************)
(* Timestamps.  A timestamp is [type, v, ref]:                             *)
(*   "integer"  integer id v                (compared by value)            *)
(*   "string"   string id with code v       (compared by value)            *)
(*   "date"     Date object, getTime() = v, object identity ref            *)
(* A Date is an object, so === / !== compare ref; two Date objects of one  *)
(* list always have different refs.                                        *)
(***************************************************************************)
IntTs(v) == [type |-> "integer", v |-> v, ref |-> 0]
StrTs(v) == [type |-> "string", v |-> v, ref |-> 0]
DateTs(v, r) == [type |-> "date", v |-> v, ref |-> r]
NoTs == [type |-> "null", v |-> 0, ref |-> 0]

(***************************************************************************)
(* Statistics as stored in the resolved configuration.  Every entry maps   *)
(* the statistics keys to a stored value [present, isArray, vals]: a       *)
(* number (vals = <<x>>), an array over time, or an absent key.            *)
(***************************************************************************)
StatKeys == {"min", "max", "mean", "std"}
Sc(x) == [present |-> TRUE, isArray |-> FALSE, vals |-> <<x>>]
Ar(s) == [present |-> TRUE, isArray |-> TRUE, vals |-> s]
Absent == [present |-> FALSE, isArray |-> FALSE, vals |-> <<>>]

\* the value of a key that holds a number, as a JavaScript scalar
ScalarOf(sv) == IF sv.present /\ ~sv.isArray THEN Num(sv.vals[1]) ELSE UndefV

(***************************************************************************)
(* DTYPE_LIMITS, for the integer dtypes the configurations below use.      *)
(***************************************************************************)
GetDtypeLimits(dtype) ==
  CASE dtype = "|u1" -> [min |-> Num(0), max |-> Num(255)]
    [] dtype = "|i1" -> [min |-> Num(-128), max |-> Num(127)]
    [] dtype = "<i2" -> [min |-> Num(-32768), max |-> Num(32767)]
    [] dtype = "<u2" -> [min |-> Num(0), max |-> Num(65535)]

(***************************************************************************)
(* A range {min, max} that may be missing (null / undefined).              *)
(***************************************************************************)
Range(lo, hi) == [present |-> TRUE, min |-> lo, max |-> hi]
NoRange == [present |-> FALSE, min |-> UndefV, max |-> UndefV]

\* the stored value of key k of statistics entry e, as the range endpoints
\* statistics[i][minKey] / statistics[i][maxKey] read it (a number)
KeyScalar(e, k) == ScalarOf(e[k])

(***************************************************************************)
(* ZarrTileResolver._calculateFromPerBandGlobal (cases 2 and 3)            *)
(***************************************************************************)
CalculateFromPerBandGlobal(statistics, minKey, maxKey, strategy, bands) ==
  LET usable == {i \in DOMAIN statistics :
                    statistics[i][minKey].present /\ statistics[i][maxKey].present}
      allMins == {statistics[i][minKey].vals[1] : i \in usable}
      allMaxs == {statistics[i][maxKey].vals[1] : i \in usable}
      gmin == CHOOSE m \in allMins : \A x \in allMins : m <= x
      gmax == CHOOSE m \in allMaxs : \A x \in allMaxs : m >= x
  IN IF usable = {}
       THEN [isNull |-> FALSE, global |-> NoRange,
             globalBandPerTime |-> <<>>, perBandGlobalTime |-> <<>>]
       ELSE [isNull |-> FALSE,
             global |-> Range(Num(gmin), Num(gmax)),
             globalBandPerTime |-> <<>>,
             perBandGlobalTime |->
               IF strategy = "per_band_global_time"
                 THEN [j \in DOMAIN bands |->
                        IF bands[j] < Len(statistics)
                          THEN Range(KeyScalar(At0(statistics, bands[j]), minKey),
                                     KeyScalar(At0(statistics, bands[j]), maxKey))
                          ELSE Range(Num(gmin), Num(gmax))]
                 ELSE <<>>]

(***************************************************************************)
(* ZarrTileResolver._calculateFromPerBandPerTime (cases 4 and 5)           *)
(***************************************************************************)
Concat(seqs) ==
  LET RECURSIVE Cat(_)
      Cat(n) == IF n = 0 THEN <<>> ELSE Cat(n - 1) \o seqs[n]
  IN Cat(Len(seqs))

CalculateFromPerBandPerTime(statistics, minKey, maxKey, strategy, bands, timestamps) ==
  LET timeCount == Len(timestamps)
      IsArr(i) == statistics[i][minKey].present /\ statistics[i][minKey].isArray
                  /\ statistics[i][maxKey].present /\ statistics[i][maxKey].isArray
      allMins == Concat([i \in DOMAIN statistics |->
                           IF IsArr(i) THEN statistics[i][minKey].vals ELSE <<>>])
      allMaxs == Concat([i \in DOMAIN statistics |->
                           IF IsArr(i) THEN statistics[i][maxKey].vals ELSE <<>>])
      global == IF Len(allMins) > 0 /\ Len(allMaxs) > 0
                  THEN Range(Num(SeqMin(allMins)), Num(SeqMax(allMaxs)))
                  ELSE NoRange
      \* globalStats.global?.min || 0 : a missing or zero endpoint gives d
      OrElse(v, d) == IF v.kind = "int" /\ v.val # 0 THEN v ELSE Num(d)
      PerTime(t) ==
        LET at == {i \in DOMAIN statistics :
                     IsArr(i) /\ t < Len(statistics[i][minKey].vals)
                              /\ t < Len(statistics[i][maxKey].vals)}
            mins == {At0(statistics[i][minKey].vals, t) : i \in at}
            maxs == {At0(statistics[i][maxKey].vals, t) : i \in at}
        IN Range(IF at # {} THEN Num(CHOOSE m \in mins : \A x \in mins : m <= x)
                            ELSE OrElse(global.min, 0),
                 IF at # {} THEN Num(CHOOSE m \in maxs : \A x \in maxs : m >= x)
                            ELSE OrElse(global.max, 1))
      PerBand(bandIndex) ==
        IF bandIndex < Len(statistics) /\ IsArr(bandIndex + 1)
          THEN Range(Num(SeqMin(At0(statistics, bandIndex)[minKey].vals)),
                     Num(SeqMax(At0(statistics, bandIndex)[maxKey].vals)))
          ELSE IF global.present THEN global ELSE Range(Num(0), Num(1))
  IN [isNull |-> FALSE,
      global |-> global,
      globalBandPerTime |->
        IF strategy = "global_band_per_time"
          THEN [t \in 1..timeCount |-> PerTime(t - 1)] ELSE <<>>,
      perBandGlobalTime |->
        IF strategy = "per_band_global_time"
          THEN [j \in DOMAIN bands |-> PerBand(bands[j])] ELSE <<>>]

(***************************************************************************)
(* ZarrTileResolver._calculateGlobalStatistics, and the guard around its   *)
(* call in resolveAllProperties: the field stays undefined (isNull) when   *)
(* there is no normalization or the strategy is per_band_per_time.         *)
(***************************************************************************)
NoGlobalStatistics ==
  [isNull |-> TRUE, global |-> NoRange,
   globalBandPerTime |-> <<>>, perBandGlobalTime |-> <<>>]

CalculateGlobalStatistics(statistics, statisticsFormat, normalize, bands, timestamps) ==
  IF ~normalize.present \/ normalize.strategy = "per_band_per_time"
    THEN NoGlobalStatistics
    ELSE CASE statisticsFormat = "case1" ->
                [isNull |-> FALSE,
                 global |-> Range(KeyScalar(statistics[1], normalize.min_key),
                                  KeyScalar(statistics[1], normalize.max_key)),
                 globalBandPerTime |-> <<>>, perBandGlobalTime |-> <<>>]
           [] statisticsFormat \in {"case2", "case3"} ->
                CalculateFromPerBandGlobal(statistics, normalize.min_key,
                   normalize.max_key, normalize.strategy, bands)
           [] statisticsFormat \in {"case4", "case5"} ->
                CalculateFromPerBandPerTime(statistics, normalize.min_key,
                   normalize.max_key, normalize.strategy, bands, timestamps)

(***************************************************************************)
(* Resolved configurations.  Each is a configuration that                  *)
(* ZarrTileResolver.resolveAllProperties returns for some user input and   *)
(* dataset: timestamps accepted by validateTimestamps, bands accepted by   *)
(* validateBands against shape[1], the no-data format validateNodata tags, *)
(* the statistics case _identifyAndValidateStatisticsFormat assigns, and   *)
(* the aggregates _calculateGlobalStatistics derives.                      *)
(***************************************************************************)
NoNormalize == [present |-> FALSE, min_key |-> "min", max_key |-> "max",
                strategy |-> "per_band_per_time"]
Normalize(strategy) == [present |-> TRUE, min_key |-> "min", max_key |-> "max",
                        strategy |-> strategy]
NoDrc == [present |-> FALSE, strategy |-> "normalize", mean_key |-> "mean",
          std_key |-> "std", slope |-> 2]
Drc(strategy) == [present |-> TRUE, strategy |-> strategy, mean_key |-> "mean",
                  std_key |-> "std", slope |-> 2]

MakeConfig(timestamps, bands, shape, dtype, nodata, nodataFormat,
           statistics, statisticsFormat, normalize, renderType, drc) ==
  [timestamps |-> timestamps, bands |-> bands, zoomLevels |-> <<0, 2>>,
   valueArrayShape |-> shape, dtype |-> dtype,
   nodata |-> nodata, nodataFormat |-> nodataFormat,
   statistics |-> statistics, statisticsFormat |-> statisticsFormat,
   normalize |-> normalize, renderType |-> renderType, drc |-> drc,
   globalStatistics |->
     CalculateGlobalStatistics(statistics, statisticsFormat, normalize,
                               bands, timestamps)]

\* integer ids with a repeated id, one band of three, global statistics
ConfigDupIds ==
  MakeConfig(<<IntTs(5), IntTs(5), IntTs(7)>>, <<0>>, <<3, 3, 8, 8>>, "|u1",
             [kind |-> "num", vals |-> <<0>>], "global",
             <<[min |-> Sc(0), max |-> Sc(200), mean |-> Absent, std |-> Absent]>>,
             "case1", Normalize("per_band_per_time"), "raw", NoDrc)

\* Date timestamps, RGB composite, per-composition per-time statistics
ConfigDates ==
  MakeConfig(<<DateTs(100, 1), DateTs(200, 2)>>, <<0, 1, 2>>, <<2, 3, 8, 8>>, "<i2",
             [kind |-> "array", vals |-> <<-1, -2, -3>>], "per_band_composition",
             <<[min |-> Ar(<<1, 2>>), max |-> Ar(<<11, 12>>),
                mean |-> Ar(<<5, 6>>), std |-> Ar(<<2, 3>>)],
               [min |-> Ar(<<3, 0>>), max |-> Ar(<<13, 10>>),
                mean |-> Ar(<<7, 4>>), std |-> Ar(<<1, 2>>)],
               [min |-> Ar(<<4, 5>>), max |-> Ar(<<14, 15>>),
                mean |-> Ar(<<8, 9>>), std |-> Ar(<<3, 1>>)]>>,
             "case4", Normalize("global_band_per_time"), "display",
             Drc("std_stretch"))

\* string ids, one band of two, per-dataset-band statistics and no-data
ConfigStrings ==
  MakeConfig(<<StrTs(1), StrTs(2)>>, <<1>>, <<2, 2, 8, 8>>, "|u1",
             [kind |-> "array", vals |-> <<7, 9>>], "per_dataset_band",
             <<[min |-> Sc(10), max |-> Sc(20), mean |-> Absent, std |-> Absent],
               [min |-> Sc(30), max |-> Sc(40), mean |-> Absent, std |-> Absent]>>,
             "case3", Normalize("per_band_global_time"), "display",
             Drc("normalize"))

\* generated ids 0..2, one band of three, per-dataset-band per-time statistics
ConfigCount ==
  MakeConfig(<<IntTs(0), IntTs(1), IntTs(2)>>, <<2>>, <<3, 3, 8, 8>>, "|i1",
             [kind |-> "null", vals |-> <<>>], "none",
             <<[min |-> Ar(<<1, 2, 3>>), max |-> Ar(<<4, 5, 6>>),
                mean |-> Absent, std |-> Absent],
               [min |-> Ar(<<0, 2, 1>>), max |-> Ar(<<9, 8, 7>>),
                mean |-> Absent, std |-> Absent],
               [min |-> Ar(<<2, 2, 2>>), max |-> Ar(<<3, 3, 3>>),
                mean |-> Absent, std |-> Absent]>>,
             "case5", Normalize("global"), "raw", NoDrc)

\* a single timestep, composite with a repeated band, per-composition statistics
ConfigSingle ==
  MakeConfig(<<IntTs(0)>>, <<0, 0, 1>>, <<1, 2, 8, 8>>, "<u2",
             [kind |-> "num", vals |-> <<-9999>>], "global",
             <<[min |-> Sc(1), max |-> Sc(2), mean |-> Sc(1), std |-> Sc(1)],
               [min |-> Sc(3), max |-> Sc(4), mean |-> Sc(3), std |-> Sc(2)],
               [min |-> Sc(5), max |-> Sc(6), mean |-> Sc(5), std |-> Sc(3)]>>,
             "case2", NoNormalize, "display", Drc("std_stretch"))

Configs == {ConfigDupIds, ConfigDates, ConfigStrings, ConfigCount, ConfigSingle}

(***************************************************************************)
(* Derived values of the cache.  A nullable array is [isNull, vals].       *)
(***************************************************************************)
NullArr == [isNull |-> TRUE, vals |-> <<>>]
Arr(s) == [isNull |-> FALSE, vals |-> s]

\* statistics of one displayed band: null, or key -> value (undefined for a
\* key the entry does not carry)
NullBandStats == [isNull |-> TRUE, vals |-> [k \in StatKeys |-> UndefV]]
BandStats(f) == [isNull |-> FALSE, vals |-> f]

\* !nodata : null and the number 0 are falsy, arrays are truthy
NodataFalsy(nodata) ==
  \/ nodata.kind = "null"
  \/ nodata.kind = "num" /\ nodata.vals[1] = 0

(***************************************************************************)
(* ZarrTile._resolveCurrentNodata                                          *)
(***************************************************************************)
ResolveCurrentNodata(cfg, bands) ==
  IF NodataFalsy(cfg.nodata) THEN NullArr
  ELSE CASE cfg.nodataFormat = "global" ->
              Arr([i \in DOMAIN bands |-> Num(cfg.nodata.vals[1])])
         [] cfg.nodataFormat = "per_band_composition" ->
              Arr([i \in DOMAIN bands |->
                     IF i - 1 < Len(cfg.nodata.vals)
                       THEN Num(cfg.nodata.vals[i]) ELSE NullV])
         [] cfg.nodataFormat = "per_dataset_band" ->
              Arr([i \in DOMAIN bands |->
                     IF bands[i] < Len(cfg.nodata.vals)
                       THEN Num(At0(cfg.nodata.vals, bands[i])) ELSE NullV])
         [] OTHER -> NullArr

(***************************************************************************)
(* ZarrTile._resolveCurrentStatistics                                      *)
(***************************************************************************)
\* { ...entry } : a copy holding the entry's own keys
CopyEntry(e) == BandStats([k \in StatKeys |-> ScalarOf(e[k])])

\* the per-time entry read at timeIndex: values[timeIndex], or null
EntryAtTime(e, timeIndex) ==
  BandStats([k \in StatKeys |->
     IF ~e[k].present THEN UndefV
     ELSE IF e[k].isArray /\ timeIndex < Len(e[k].vals)
            THEN Num(At0(e[k].vals, timeIndex)) ELSE NullV])

ResolveCurrentStatistics(cfg, timeIndex, bands) ==
  LET statistics == cfg.statistics
      format == cfg.statisticsFormat
  IN CASE format = "case1" ->
            Arr([i \in DOMAIN bands |-> CopyEntry(statistics[1])])
       [] format = "case2" ->
            Arr([i \in DOMAIN bands |->
                   IF i - 1 < Len(statistics)
                     THEN CopyEntry(statistics[i]) ELSE NullBandStats])
       [] format = "case3" ->
            Arr([i \in DOMAIN bands |->
                   IF bands[i] < Len(statistics)
                     THEN CopyEntry(At0(statistics, bands[i])) ELSE NullBandStats])
       [] format = "case4" ->
            Arr([i \in DOMAIN bands |->
                   IF i - 1 < Len(statistics)
                     THEN EntryAtTime(statistics[i], timeIndex) ELSE NullBandStats])
       [] format = "case5" ->
            Arr([i \in DOMAIN bands |->
                   IF bands[i] < Len(statistics)
                     THEN EntryAtTime(At0(statistics, bands[i]), timeIndex)
                     ELSE NullBandStats])
       [] OTHER -> NullArr

(***************************************************************************)
(* ZarrTile._resolveCurrentNormalization.  cacheStatistics is              *)
(* this.resolvedCache_.statistics as it stands when the method runs.       *)
(***************************************************************************)
\* r?.min ?? d  and  r?.max ?? d  for a possibly missing range r
RangeMinOr(r, d) == IF r.present THEN Coalesce(r.min, d) ELSE d
RangeMaxOr(r, d) == IF r.present THEN Coalesce(r.max, d) ELSE d

\* arr?.[i] for a 0-based index into an array of ranges
RangeAt(arr, i) == IF i >= 0 /\ i < Len(arr) THEN At0(arr, i) ELSE NoRange

ResolveCurrentNormalization(cfg, timeIndex, bands, cacheStatistics) ==
  LET normalize == cfg.normalize
      globalStats == cfg.globalStatistics
      dtypeLimits == GetDtypeLimits(cfg.dtype)
      global == IF globalStats.isNull THEN NoRange ELSE globalStats.global
      timeStats == IF globalStats.isNull THEN NoRange
                   ELSE RangeAt(globalStats.globalBandPerTime, timeIndex)
      bandStats(i) == IF globalStats.isNull THEN NoRange
                      ELSE RangeAt(globalStats.perBandGlobalTime, i)
  IN IF ~normalize.present THEN NullArr
     ELSE CASE normalize.strategy = "global" ->
                 Arr([i \in DOMAIN bands |->
                        [min |-> RangeMinOr(global, dtypeLimits.min),
                         max |-> RangeMaxOr(global, dtypeLimits.max)]])
            [] normalize.strategy = "global_band_per_time" ->
                 Arr([i \in DOMAIN bands |->
                        [min |-> RangeMinOr(timeStats, dtypeLimits.min),
                         max |-> RangeMaxOr(timeStats, dtypeLimits.max)]])
            [] normalize.strategy = "per_band_global_time" ->
                 Arr([i \in DOMAIN bands |->
                        [min |-> RangeMinOr(bandStats(i - 1), dtypeLimits.min),
                         max |-> RangeMaxOr(bandStats(i - 1), dtypeLimits.max)]])
            [] OTHER ->
                 Arr([i \in DOMAIN bands |->
                        IF cacheStatistics.isNull \/ i > Len(cacheStatistics.vals)
                           \/ cacheStatistics.vals[i].isNull
                          THEN [min |-> dtypeLimits.min, max |-> dtypeLimits.max]
                          ELSE LET stats == cacheStatistics.vals[i].vals
                               IN [min |-> IF stats[normalize.min_key].kind # "undef"
                                             THEN stats[normalize.min_key]
                                             ELSE dtypeLimits.min,
                                   max |-> IF stats[normalize.max_key].kind # "undef"
                                             THEN stats[normalize.max_key]
                                             ELSE dtypeLimits.max]])

(***************************************************************************)
(* ZarrTile._resolveCurrentDisplayRenderParams                             *)
(***************************************************************************)
NullParams == [isNull |-> TRUE, strategy |-> "none", useNormalization |-> FALSE,
               stretchParams |-> <<>>]

ResolveCurrentDisplayRenderParams(cfg, bands, cacheStatistics) ==
  LET drc == cfg.drc
      DefaultStretch == [mean |-> Num(0), std |-> Num(1), slope |-> drc.slope]
  IN IF ~drc.present \/ cfg.renderType # "display" THEN NullParams
     ELSE IF drc.strategy = "normalize"
       THEN [isNull |-> FALSE, strategy |-> "normalize", useNormalization |-> TRUE,
             stretchParams |-> <<>>]
     ELSE IF drc.strategy = "std_stretch"
       THEN IF cacheStatistics.isNull THEN NullParams
            ELSE [isNull |-> FALSE, strategy |-> "std_stretch",
                  useNormalization |-> FALSE,
                  stretchParams |->
                    [i \in DOMAIN bands |->
                       IF i > Len(cacheStatistics.vals)
                          \/ cacheStatistics.vals[i].isNull
                         THEN DefaultStretch
                       ELSE LET stats == cacheStatistics.vals[i].vals
                            IN IF stats[drc.mean_key].kind = "undef"
                                  \/ stats[drc.std_key].kind = "undef"
                                 THEN DefaultStretch
                                 ELSE [mean |-> stats[drc.mean_key],
                                       std |-> stats[drc.std_key],
                                       slope |-> drc.slope]]]
     ELSE NullParams

\* the worker request message (the fields derived from the view state), and
\* the value standing for "no message"
NoMsg == [bands |-> <<>>, timeIndex |-> -1, nodata |-> NullArr,
          normalization |-> NullArr, displayRenderParams |-> NullParams]

(***************************************************************************)
(* State of one tile source and of the static worker pool.                 *)
(***************************************************************************)
VARIABLES
  config_,            \* this.config_ : the frozen resolved configuration
  timestamps_,        \* this.timestamps_
  currentTimeIndex_,  \* this.currentTimeIndex_
  bands_,             \* this.bands_
  resolvedCache_,     \* this.resolvedCache_
  values_,            \* observable properties 'time' and 'bands'
  workerPool_,        \* ZarrTile.workerPool_ : idle workers, top of stack last
  workers,            \* every Worker created so far
  requests,           \* tile-loader calls that passed the zoom check
  tasks,              \* worker side: the invocations of self.onmessage
  creation,           \* a ZarrTile.create call: inputs, phase, results
  last                \* the most recent call: name, argument, outcome

vars == <<config_, timestamps_, currentTimeIndex_, bands_, resolvedCache_,
          values_, workerPool_, workers, requests, tasks, creation, last>>

maxWorkers_ == 16

(***************************************************************************)
(* Arguments the operations are called with.                               *)
(***************************************************************************)
MaxIndexInput == 3

TimeInputs ==
  {Num(i) : i \in -1..MaxIndexInput} \cup {Frac(1), NaNV, InfV, StrV, UndefV}

StepInputs ==
  {Num(n) : n \in -1..MaxStep} \cup {Frac(0), NaNV, StrV}

ZoomInputs == 0..MaxZoomInput

\* a band-list argument: an array of scalars, or something that is no array
BandList(s) == [isArray |-> TRUE, elems |-> s]
NotAnArray == [isArray |-> FALSE, elems |-> <<>>]

BandInputs ==
  {BandList(<<Num(0)>>), BandList(<<Num(1)>>), BandList(<<Num(2)>>),
   BandList(<<Num(0), Num(1), Num(2)>>), BandList(<<Num(1), Num(1), Num(0)>>),
   BandList(<<Num(0), Num(1)>>), BandList(<<>>),
   BandList(<<Num(0), Num(1), Num(2), Num(0)>>),
   BandList(<<Num(-1)>>), BandList(<<Frac(0)>>),
   BandList(<<Num(0), StrV, Num(1)>>), NotAnArray}

TimeValueInputs ==
  {NoTs, IntTs(0), IntTs(1), IntTs(6), IntTs(9), StrTs(2), StrTs(9),
   DateTs(100, 90), DateTs(160, 91)}

NoArg == UndefV
NoBandsArg == NotAnArray

Call(op, arg, argBands, argTime, threw, ret, refreshes) ==
  [op |-> op, arg |-> arg, argBands |-> argBands, argTime |-> argTime,
   threw |-> threw, ret |-> ret, refreshes |-> refreshes, msg |-> NoMsg,
   job |-> 0]

\* validateBands without the length-1-or-3 test
ValidateBandsAnyLength(bands, totalBandsAvailable) ==
  LET n == Len(bands.elems)
      vals == [i \in 1..n |-> bands.elems[i].val]
  IN IF ~bands.isArray THEN [ok |-> FALSE, bands |-> <<>>]
     ELSE IF n = 0 THEN [ok |-> FALSE, bands |-> <<>>]
     ELSE IF \E i \in 1..n :
                ~NumberIsInteger(bands.elems[i]) \/ bands.elems[i].val < 0
       THEN [ok |-> FALSE, bands |-> <<>>]
     ELSE [ok |-> TRUE, bands |-> vals]

(***************************************************************************)
(* ZarrTileValidator.validateBands: [ok, bands]; ok = FALSE is a throw.    *)
(* totalBandsAvailable is a scalar (null when no bound is known).          *)
(***************************************************************************)
ValidateBands(bands, totalBandsAvailable) ==
  LET n == Len(bands.elems)
      vals == [i \in 1..n |-> bands.elems[i].val]
  IN IF ~bands.isArray THEN [ok |-> FALSE, bands |-> <<>>]
     ELSE IF n = 0 THEN [ok |-> FALSE, bands |-> <<>>]
     ELSE IF n # 1 /\ n # 3 THEN [ok |-> FALSE, bands |-> <<>>]
     ELSE IF \E i \in 1..n :
                ~NumberIsInteger(bands.elems[i]) \/ bands.elems[i].val < 0
       THEN [ok |-> FALSE, bands |-> <<>>]
     ELSE IF /\ totalBandsAvailable.kind = "int"
             /\ totalBandsAvailable.val > 0
             /\ \E i \in 1..n : vals[i] >= totalBandsAvailable.val
       THEN [ok |-> FALSE, bands |-> <<>>]
     ELSE [ok |-> TRUE, bands |-> vals]

\* ZarrTile._arraysEqual on a nullable array a and an array b
ArraysEqual(a, b) == ~a.isNull /\ a.vals = b

(***************************************************************************)
(* The synchronous part of the source is computed on a record              *)
(*   [idx, bands, cache, time, bandsProp, refreshes, threw]                *)
(* so that methods calling each other compose.                             *)
(***************************************************************************)
Here ==
  [idx |-> currentTimeIndex_, bands |-> bands_, cache |-> resolvedCache_,
   time |-> values_.time, bandsProp |-> values_.bands,
   refreshes |-> 0, threw |-> FALSE]

\* ZarrTile._invalidateCache
InvalidateCache(st) == [st EXCEPT !.cache.valid = FALSE]

\* the 'propertychange' listener installed by the constructor, for the keys
\* 'time' and 'bands': invalidate the cache, then this.refresh()
OnPropertyChange(st) ==
  [InvalidateCache(st) EXCEPT !.refreshes = @ + 1]

\* this.set('time', value): the base object stores the value and notifies
\* its listeners only when the stored value !== value
SetTimeProperty(st, value) ==
  IF st.time # value
    THEN OnPropertyChange([st EXCEPT !.time = value])
    ELSE [st EXCEPT !.time = value]

\* this.set('bands', [...this.bands_]): the argument is a freshly allocated
\* array, never identical (!==) to the stored one, so listeners are notified
SetBandsProperty(st, value) ==
  OnPropertyChange([st EXCEPT !.bandsProp = value])

\* setCurrentTimeIndex without the clamp to [0, length - 1]
SetCurrentTimeIndexNoClamp(st, index) ==
  IF ~TypeofNumber(index) \/ ~NumberIsInteger(index)
    THEN [st EXCEPT !.threw = TRUE]
    ELSE IF index.val # st.idx
           THEN LET s1 == [st EXCEPT !.idx = index.val]
                    s2 == IF index.val >= 0 /\ index.val < Len(timestamps_)
                            THEN SetTimeProperty(s1, At0(timestamps_, index.val))
                            ELSE s1
                IN InvalidateCache(s2)
           ELSE st

\* setCurrentTimeIndex without the test that the clamped index differs
SetCurrentTimeIndexAlwaysInvalidate(st, index) ==
  IF ~TypeofNumber(index) \/ ~NumberIsInteger(index)
    THEN [st EXCEPT !.threw = TRUE]
    ELSE LET clampedIndex == Max2(0, Min2(index.val, Len(timestamps_) - 1))
             s1 == [st EXCEPT !.idx = clampedIndex]
             s2 == IF Len(timestamps_) > 0
                     THEN SetTimeProperty(s1, At0(timestamps_, clampedIndex))
                     ELSE s1
         IN InvalidateCache(s2)

\* ZarrTile.setCurrentTimeIndex
SetCurrentTimeIndexOn(st, index) ==
  IF ~TypeofNumber(index) \/ ~NumberIsInteger(index)
    THEN [st EXCEPT !.threw = TRUE]
    ELSE LET clampedIndex == Max2(0, Min2(index.val, Len(timestamps_) - 1))
         IN IF clampedIndex # st.idx
              THEN LET s1 == [st EXCEPT !.idx = clampedIndex]
                       s2 == IF Len(timestamps_) > 0
                               THEN SetTimeProperty(s1, At0(timestamps_, clampedIndex))
                               ELSE s1
                   IN InvalidateCache(s2)
              ELSE st

\* the total-band bound setBands passes to the validator:
\* this.config_.valueArrayMetadata?.shape?.[1] || null
SetBandsTotalBands(cfg) ==
  IF "valueArrayMetadata" \in DOMAIN cfg
    THEN LET n == At0(cfg.valueArrayMetadata.shape, 1)
         IN IF n # 0 THEN Num(n) ELSE NullV
    ELSE NullV

\* ZarrTile.setBands
SetBandsOn(st, bands) ==
  LET validated == ValidateBands(bands, SetBandsTotalBands(config_))
  IN IF ~validated.ok THEN [st EXCEPT !.threw = TRUE]
     ELSE IF validated.bands # st.bands
       THEN InvalidateCache(
              SetBandsProperty([st EXCEPT !.bands = validated.bands],
                               validated.bands))
       ELSE st

\* _updateResolvedCache deriving the normalization and the display parameters
\* before the statistics field is refreshed
UpdateResolvedCacheStaleStats(st) ==
  LET cache == st.cache
  IN IF cache.valid /\ cache.timeIndex = st.idx /\ ArraysEqual(cache.bands, st.bands)
       THEN st
       ELSE [st EXCEPT !.cache =
              [timeIndex |-> st.idx,
               bands |-> Arr(st.bands),
               nodata |-> ResolveCurrentNodata(config_, st.bands),
               normalization |->
                 ResolveCurrentNormalization(config_, st.idx, st.bands,
                                             cache.statistics),
               displayRenderParams |->
                 ResolveCurrentDisplayRenderParams(config_, st.bands,
                                                   cache.statistics),
               statistics |-> ResolveCurrentStatistics(config_, st.idx, st.bands),
               valid |-> TRUE]]

\* _updateResolvedCache deriving the display parameters from the statistics
\* the cache held before the recomputation
UpdateResolvedCacheStaleStretch(st) ==
  LET cache == st.cache
      statistics == ResolveCurrentStatistics(config_, st.idx, st.bands)
  IN IF cache.valid /\ cache.timeIndex = st.idx /\ ArraysEqual(cache.bands, st.bands)
       THEN st
       ELSE [st EXCEPT !.cache =
              [timeIndex |-> st.idx,
               bands |-> Arr(st.bands),
               nodata |-> ResolveCurrentNodata(config_, st.bands),
               normalization |->
                 ResolveCurrentNormalization(config_, st.idx, st.bands, statistics),
               displayRenderParams |->
                 ResolveCurrentDisplayRenderParams(config_, st.bands,
                                                   cache.statistics),
               statistics |-> statistics,
               valid |-> TRUE]]

\* ZarrTile._updateResolvedCache: the fields are assigned in the code's order;
\* normalization and display parameters read the statistics field of the cache
UpdateResolvedCacheOn(st) ==
  LET cache == st.cache
  IN IF cache.valid /\ cache.timeIndex = st.idx /\ ArraysEqual(cache.bands, st.bands)
       THEN st
       ELSE LET c1 == [cache EXCEPT !.timeIndex = st.idx,
                                    !.bands = Arr(st.bands),
                                    !.nodata = ResolveCurrentNodata(config_, st.bands)]
                c2 == [c1 EXCEPT !.statistics =
                         ResolveCurrentStatistics(config_, st.idx, st.bands)]
                c3 == [c2 EXCEPT !.normalization =
                         ResolveCurrentNormalization(config_, st.idx, st.bands,
                                                     c2.statistics)]
                c4 == [c3 EXCEPT !.displayRenderParams =
                         ResolveCurrentDisplayRenderParams(config_, st.bands,
                                                           c3.statistics)]
            IN [st EXCEPT !.cache = [c4 EXCEPT !.valid = TRUE]]

\* write a computed record back to the variables of the source
Commit(st) ==
  /\ currentTimeIndex_' = st.idx
  /\ bands_' = st.bands
  /\ resolvedCache_' = st.cache
  /\ values_' = [time |-> st.time, bands |-> st.bandsProp]

(***************************************************************************)
(* ZarrTile.setCurrentTime: index of the closest timestamp, first minimum  *)
(* wins; timestamps of another type than the argument are skipped.         *)
(***************************************************************************)
\* !timeValue : null, the number 0 (the empty string is not among the inputs)
TimeValueFalsy(tv) == tv.type = "null" \/ (tv.type = "integer" /\ tv.v = 0)

Abs(x) == IF x < 0 THEN -x ELSE x

\* the difference the loop computes for timestamp ts: [ok, inf, d]
\* (ok = FALSE: type mismatch, the iteration is skipped; inf: Infinity)
TimeDiff(ts, tv) ==
  IF ts.type = "date" /\ tv.type = "date"
    THEN [ok |-> TRUE, inf |-> FALSE, d |-> Abs(ts.v - tv.v)]
  ELSE IF ts.type = "integer" /\ tv.type = "integer"
    THEN [ok |-> TRUE, inf |-> FALSE, d |-> Abs(ts.v - tv.v)]
  ELSE IF ts.type = "string" /\ tv.type = "string"
    THEN [ok |-> TRUE, inf |-> ts.v # tv.v, d |-> 0]
  ELSE [ok |-> FALSE, inf |-> TRUE, d |-> 0]

\* diff < bestDiff, where best is [inf, d]
DiffLess(diff, best) == ~diff.inf /\ (best.inf \/ diff.d < best.d)

BestIndex(timestamps, tv) ==
  LET RECURSIVE Scan(_, _, _)
      Scan(i, bestIndex, best) ==
        IF i > Len(timestamps) THEN bestIndex
        ELSE LET diff == TimeDiff(timestamps[i], tv)
             IN IF diff.ok /\ DiffLess(diff, best)
                  THEN Scan(i + 1, i - 1, [inf |-> diff.inf, d |-> diff.d])
                  ELSE Scan(i + 1, bestIndex, best)
  IN Scan(1, 0, [inf |-> TRUE, d |-> 0])

SetCurrentTimeOn(st, tv) ==
  IF TimeValueFalsy(tv) THEN st
  ELSE SetCurrentTimeIndexOn(st, Num(BestIndex(timestamps_, tv)))

(***************************************************************************)
(* Time navigation: [st, ret]; ret is the returned boolean.                *)
(***************************************************************************)
\* nextTimestep comparing against the length instead of the last index
NextTimestepOffByOne(st) ==
  IF st.idx < Len(timestamps_)
    THEN [st |-> SetCurrentTimeIndexOn(st, Num(st.idx + 1)), ret |-> "true"]
    ELSE [st |-> st, ret |-> "false"]

\* ZarrTile.nextTimestep
NextTimestepOn(st) ==
  IF st.idx < Len(timestamps_) - 1
    THEN [st |-> SetCurrentTimeIndexOn(st, Num(st.idx + 1)), ret |-> "true"]
    ELSE [st |-> st, ret |-> "false"]

\* previousTimestep refusing to step back onto index 0
PreviousTimestepAboveOne(st) ==
  IF st.idx > 1
    THEN [st |-> SetCurrentTimeIndexOn(st, Num(st.idx - 1)), ret |-> "true"]
    ELSE [st |-> st, ret |-> "false"]

\* ZarrTile.previousTimestep
PreviousTimestepOn(st) ==
  IF st.idx > 0
    THEN [st |-> SetCurrentTimeIndexOn(st, Num(st.idx - 1)), ret |-> "true"]
    ELSE [st |-> st, ret |-> "false"]

\* nextTimesteps without the rejection of a negative count
NextTimestepsNoSignCheck(st, n) ==
  IF ~TypeofNumber(n) \/ ~NumberIsInteger(n)
    THEN [st |-> [st EXCEPT !.threw = TRUE], ret |-> "none"]
  ELSE IF n.val = 0 THEN [st |-> st, ret |-> "false"]
  ELSE LET targetIndex == Min2(st.idx + n.val, Len(timestamps_) - 1)
       IN IF targetIndex # st.idx
            THEN [st |-> SetCurrentTimeIndexOn(st, Num(targetIndex)), ret |-> "true"]
            ELSE [st |-> st, ret |-> "false"]

\* ZarrTile.nextTimesteps
NextTimestepsOn(st, n) ==
  IF ~TypeofNumber(n) \/ ~NumberIsInteger(n)
    THEN [st |-> [st EXCEPT !.threw = TRUE], ret |-> "none"]
  ELSE IF n.val < 0 THEN [st |-> [st EXCEPT !.threw = TRUE], ret |-> "none"]
  ELSE IF n.val = 0 THEN [st |-> st, ret |-> "false"]
  ELSE LET targetIndex == Min2(st.idx + n.val, Len(timestamps_) - 1)
       IN IF targetIndex # st.idx
            THEN [st |-> SetCurrentTimeIndexOn(st, Num(targetIndex)), ret |-> "true"]
            ELSE [st |-> st, ret |-> "false"]

\* ZarrTile.previousTimesteps
PreviousTimestepsOn(st, n) ==
  IF ~TypeofNumber(n) \/ ~NumberIsInteger(n)
    THEN [st |-> [st EXCEPT !.threw = TRUE], ret |-> "none"]
  ELSE IF n.val < 0 THEN [st |-> [st EXCEPT !.threw = TRUE], ret |-> "none"]
  ELSE IF n.val = 0 THEN [st |-> st, ret |-> "false"]
  ELSE LET targetIndex == Max2(st.idx - n.val, 0)
       IN IF targetIndex # st.idx
            THEN [st |-> SetCurrentTimeIndexOn(st, Num(targetIndex)), ret |-> "true"]
            ELSE [st |-> st, ret |-> "false"]

(***************************************************************************)
(* Actions of the synchronous public interface.                            *)
(***************************************************************************)
PoolUnchanged == UNCHANGED <<workerPool_, workers, requests>>
ConfigUnchanged == UNCHANGED <<config_, timestamps_>>
\* the worker's internals and the creation pipeline are no part of a source
ElsewhereUnchanged == UNCHANGED <<tasks, creation>>

SetCurrentTimeIndex(index) ==
  LET st == SetCurrentTimeIndexOn(Here, index)
  IN /\ Commit(st)
     /\ last' = Call("setCurrentTimeIndex", index, NoBandsArg, NoTs,
                     st.threw, "none", st.refreshes)
     /\ PoolUnchanged /\ ConfigUnchanged /\ ElsewhereUnchanged

SetCurrentTime(tv) ==
  LET st == SetCurrentTimeOn(Here, tv)
  IN /\ Commit(st)
     /\ last' = Call("setCurrentTime", NoArg, NoBandsArg, tv,
                     st.threw, "none", st.refreshes)
     /\ PoolUnchanged /\ ConfigUnchanged /\ ElsewhereUnchanged

\* setBands storing the validated bands in the configuration as well
SetBandsIntoConfig(bands) ==
  LET st == SetBandsOn(Here, bands)
  IN /\ Commit(st)
     /\ config_' = [config_ EXCEPT !.bands = st.bands]
     /\ UNCHANGED timestamps_
     /\ last' = Call("setBands", NoArg, bands, NoTs,
                     st.threw, "none", st.refreshes)
     /\ PoolUnchanged /\ ElsewhereUnchanged

SetBands(bands) ==
  LET st == SetBandsOn(Here, bands)
  IN /\ Commit(st)
     /\ last' = Call("setBands", NoArg, bands, NoTs,
                     st.threw, "none", st.refreshes)
     /\ PoolUnchanged /\ ConfigUnchanged /\ ElsewhereUnchanged

NextTimestep ==
  LET r == NextTimestepOn(Here)
  IN /\ Commit(r.st)
     /\ last' = Call("nextTimestep", NoArg, NoBandsArg, NoTs,
                     r.st.threw, r.ret, r.st.refreshes)
     /\ PoolUnchanged /\ ConfigUnchanged /\ ElsewhereUnchanged

PreviousTimestep ==
  LET r == PreviousTimestepOn(Here)
  IN /\ Commit(r.st)
     /\ last' = Call("previousTimestep", NoArg, NoBandsArg, NoTs,
                     r.st.threw, r.ret, r.st.refreshes)
     /\ PoolUnchanged /\ ConfigUnchanged /\ ElsewhereUnchanged

NextTimesteps(n) ==
  LET r == NextTimestepsOn(Here, n)
  IN /\ Commit(r.st)
     /\ last' = Call("nextTimesteps", n, NoBandsArg, NoTs,
                     r.st.threw, r.ret, r.st.refreshes)
     /\ PoolUnchanged /\ ConfigUnchanged /\ ElsewhereUnchanged

PreviousTimesteps(n) ==
  LET r == PreviousTimestepsOn(Here, n)
  IN /\ Commit(r.st)
     /\ last' = Call("previousTimesteps", n, NoBandsArg, NoTs,
                     r.st.threw, r.ret, r.st.refreshes)
     /\ PoolUnchanged /\ ConfigUnchanged /\ ElsewhereUnchanged

\* getCurrentNodata / getCurrentStatistics / getCurrentNormalization:
\* refresh the cache, then return a copy of one of its fields
GetCurrent ==
  LET st == UpdateResolvedCacheOn(Here)
  IN /\ Commit(st)
     /\ last' = Call("getCurrent", NoArg, NoBandsArg, NoTs, FALSE, "value", 0)
     /\ PoolUnchanged /\ ConfigUnchanged /\ ElsewhereUnchanged

(***************************************************************************)
(* Worker pool and tile loader.                                            *)
(*                                                                         *)
(* A worker is [handler, jobs, events, terminated]: handler is the request *)
(* whose onmessage/onerror closures are installed on it (0: none), jobs    *)
(* the requests it was sent and has not answered, events the message and   *)
(* error events it has raised that the main thread has not handled yet,    *)
(* each [kind, job] with the request it answers.                           *)
(* A request is [pc, worker, outcome].  The message a request posts is     *)
(* recorded in last.msg by the step that posts it.                         *)
(***************************************************************************)
NewWorker == [handler |-> 0, jobs |-> <<>>, events |-> <<>>, terminated |-> FALSE]

\* _getWorker creating a worker on every call
GetWorkerAlwaysNew(pool, ws) ==
  [worker |-> Len(ws) + 1, pool |-> pool, workers |-> Append(ws, NewWorker)]

\* ZarrTile._getWorker: [worker, pool, workers]
GetWorker(pool, ws) ==
  IF Len(pool) > 0
    THEN [worker |-> pool[Len(pool)], pool |-> SubSeq(pool, 1, Len(pool) - 1),
          workers |-> ws]
    ELSE [worker |-> Len(ws) + 1, pool |-> pool, workers |-> Append(ws, NewWorker)]

\* worker.terminate(): the worker stops and its undelivered messages are dropped
Terminate(ws, w) ==
  [ws EXCEPT ![w].terminated = TRUE, ![w].jobs = <<>>, ![w].events = <<>>]

\* _returnWorker pooling every worker it is given
ReturnWorkerAlwaysPool(pool, ws, w) ==
  [pool |-> Append(pool, w), workers |-> ws]

\* ZarrTile._returnWorker: [pool, workers]
ReturnWorker(pool, ws, w) ==
  IF Len(pool) < maxWorkers_
    THEN [pool |-> Append(pool, w), workers |-> ws]
    ELSE [pool |-> pool, workers |-> Terminate(ws, w)]

\* isZoomSupported accepting every zoom
IsZoomSupportedAlways(z) == z = z

\* ZarrTile.isZoomSupported
IsZoomSupported(z) == \E i \in DOMAIN config_.zoomLevels : config_.zoomLevels[i] = z

\* ZarrTile.tileLoader up to the first await: zoom check, cache refresh,
\* worker acquisition.  An unsupported zoom returns undefined at once.
TileLoaderWithin(z, limit) ==
  IF ~IsZoomSupported(z)
    THEN /\ last' = Call("tileLoader", Num(z), NoBandsArg, NoTs, FALSE, "undefined", 0)
         /\ UNCHANGED <<currentTimeIndex_, bands_, resolvedCache_, values_>>
         /\ PoolUnchanged /\ ConfigUnchanged /\ ElsewhereUnchanged
    ELSE /\ Len(requests) < limit
         /\ LET st == UpdateResolvedCacheOn(Here)
                g == GetWorker(workerPool_, workers)
            IN /\ Commit(st)
               /\ workerPool_' = g.pool
               /\ workers' = g.workers
               /\ requests' = Append(requests,
                    [pc |-> "acquired", worker |-> g.worker, outcome |-> "pending"])
         /\ last' = Call("tileLoader", Num(z), NoBandsArg, NoTs, FALSE, "promise", 0)
         /\ ConfigUnchanged /\ ElsewhereUnchanged

TileLoader(z) == TileLoaderWithin(z, MaxRequests)

\* the message tileLoader builds after the await, from the state at that time
BuildMessage ==
  [bands |-> bands_, timeIndex |-> currentTimeIndex_,
   nodata |-> resolvedCache_.nodata,
   normalization |-> resolvedCache_.normalization,
   displayRenderParams |-> resolvedCache_.displayRenderParams]

\* ZarrTile.tileLoader after `await ZarrTile._getWorker()`: install the
\* handlers on the worker, build the message and post it (a terminated
\* worker ignores what it is sent)
TileLoaderPost(r) ==
  /\ requests[r].pc = "acquired"
  /\ LET w == requests[r].worker
     IN workers' = [workers EXCEPT ![w].handler = r,
                      ![w].jobs = IF workers[w].terminated THEN @ ELSE Append(@, r)]
  /\ requests' = [requests EXCEPT ![r].pc = "posted"]
  /\ last' = [Call("tileLoader.post", Num(r), NoBandsArg, NoTs, FALSE, "none", 0)
                EXCEPT !.msg = BuildMessage]
  /\ UNCHANGED <<currentTimeIndex_, bands_, resolvedCache_, values_, workerPool_>>
  /\ ConfigUnchanged /\ ElsewhereUnchanged

RemoveAt(s, i) == SubSeq(s, 1, i - 1) \o SubSeq(s, i + 1, Len(s))

\* the worker finishes the request at position j of its jobs and posts the
\* response: {tileData, success: true} or, from the catch block,
\* {error, success: false}
WorkerRespond(w, j, ok) ==
  /\ j \in DOMAIN workers[w].jobs
  /\ workers' = [workers EXCEPT ![w].jobs = RemoveAt(@, j),
                   ![w].events = Append(@, [kind |-> IF ok THEN "ok" ELSE "err",
                                            job |-> workers[w].jobs[j]])]
  /\ last' = Call("worker.respond", Num(w), NoBandsArg, NoTs, FALSE, "none", 0)
  /\ UNCHANGED <<currentTimeIndex_, bands_, resolvedCache_, values_,
                 workerPool_, requests>>
  /\ ConfigUnchanged /\ ElsewhereUnchanged

\* an uncaught error in the worker while it works on the request at position
\* j of its jobs: self.onerror posts {error, success: false} and, as it does
\* not return true, the error event is then fired at the Worker object on the
\* main thread.  The request gets no other answer.
WorkerRaise(w, j) ==
  /\ j \in DOMAIN workers[w].jobs
  /\ workers' = [workers EXCEPT ![w].jobs = RemoveAt(@, j),
                   ![w].events = @ \o <<[kind |-> "err", job |-> workers[w].jobs[j]],
                                        [kind |-> "error", job |-> workers[w].jobs[j]]>>]
  /\ last' = Call("worker.raise", Num(w), NoBandsArg, NoTs, FALSE, "none", 0)
  /\ UNCHANGED <<currentTimeIndex_, bands_, resolvedCache_, values_,
                 workerPool_, requests>>
  /\ ConfigUnchanged /\ ElsewhereUnchanged

\* settle a promise: the first resolve/reject wins, later ones are ignored
Settle(reqs, r, outcome) ==
  IF reqs[r].outcome = "pending"
    THEN [reqs EXCEPT ![r].outcome = outcome, ![r].pc = "settled"]
    ELSE reqs

\* position of the oldest undelivered message event of worker w (0: none)
FirstMessage(w) ==
  LET at == {i \in DOMAIN workers[w].events : workers[w].events[i].kind \in {"ok", "err"}}
  IN IF at = {} THEN 0 ELSE CHOOSE i \in at : \A j \in at : i <= j

\* worker.onmessage as installed by tileLoader: hand the worker back, then
\* reject on e.data.error and resolve otherwise
OnMessage(w) ==
  /\ FirstMessage(w) > 0
  /\ workers[w].handler > 0
  /\ LET i == FirstMessage(w)
         e == workers[w].events[i]
         r == workers[w].handler
         ws == [workers EXCEPT ![w].events = RemoveAt(@, i)]
         ret == ReturnWorker(workerPool_, ws, w)
     IN /\ workerPool_' = ret.pool
        /\ workers' = ret.workers
        /\ requests' = Settle(requests, r,
                              IF e.kind = "err" THEN "rejected" ELSE "resolved")
        /\ last' = [Call("onmessage", Num(w), NoBandsArg, NoTs, FALSE, e.kind, 0)
                      EXCEPT !.job = e.job]
  /\ UNCHANGED <<currentTimeIndex_, bands_, resolvedCache_, values_>>
  /\ ConfigUnchanged /\ ElsewhereUnchanged

\* position of the oldest undelivered error event of worker w (0: none)
FirstError(w) ==
  LET at == {i \in DOMAIN workers[w].events : workers[w].events[i].kind = "error"}
  IN IF at = {} THEN 0 ELSE CHOOSE i \in at : \A j \in at : i <= j

\* worker.onerror as installed by tileLoader: hand the worker back, then reject
OnError(w) ==
  /\ FirstError(w) > 0
  /\ workers[w].handler > 0
  /\ LET i == FirstError(w)
         r == workers[w].handler
         ws == [workers EXCEPT ![w].events = RemoveAt(@, i)]
         ret == ReturnWorker(workerPool_, ws, w)
     IN /\ workerPool_' = ret.pool
        /\ workers' = ret.workers
        /\ requests' = Settle(requests, r, "rejected")
        /\ last' = [Call("onerror", Num(w), NoBandsArg, NoTs, FALSE, "error", 0)
                      EXCEPT !.job = workers[w].events[i].job]
  /\ UNCHANGED <<currentTimeIndex_, bands_, resolvedCache_, values_>>
  /\ ConfigUnchanged /\ ElsewhereUnchanged

\* ZarrTile.terminateAllWorkers
TerminateAllWorkers ==
  LET RECURSIVE Drain(_, _)
      Drain(pool, ws) ==
        IF Len(pool) = 0 THEN ws
        ELSE Drain(SubSeq(pool, 1, Len(pool) - 1), Terminate(ws, pool[Len(pool)]))
  IN /\ workers' = Drain(workerPool_, workers)
     /\ workerPool_' = <<>>
     /\ last' = Call("terminateAllWorkers", NoArg, NoBandsArg, NoTs, FALSE, "none", 0)
     /\ UNCHANGED <<currentTimeIndex_, bands_, resolvedCache_, values_, requests>>
     /\ ConfigUnchanged /\ ElsewhereUnchanged

\* no create call is being followed
NoCreation == [pc |-> "none"]

(***************************************************************************)
(* Initial state: a source as ZarrTile.create returns it.  The constructor *)
(* sets index 0 and a copy of the configured bands, installs the listener  *)
(* and sets the 'time' and 'bands' properties; the cache starts invalid.   *)
(***************************************************************************)
InitialCache ==
  [timeIndex |-> -1, bands |-> NullArr, nodata |-> NullArr,
   normalization |-> NullArr, statistics |-> NullArr,
   displayRenderParams |-> NullParams, valid |-> FALSE]

Init ==
  /\ config_ \in Configs
  /\ timestamps_ = config_.timestamps
  /\ currentTimeIndex_ = 0
  /\ bands_ = config_.bands
  /\ resolvedCache_ = InitialCache
  /\ values_ = [time |-> config_.timestamps[1], bands |-> config_.bands]
  /\ workerPool_ = <<>>
  /\ workers = <<>>
  /\ requests = <<>>
  /\ tasks = <<>>
  /\ creation = NoCreation
  /\ last = Call("create", NoArg, NoBandsArg, NoTs, FALSE, "none", 0)

(***************************************************************************)
(* Spec: the view state and the derived cache under every operation of the *)
(* synchronous public interface, with the full argument sets.              *)
(***************************************************************************)
Next ==
  \/ \E index \in TimeInputs : SetCurrentTimeIndex(index)
  \/ \E tv \in TimeValueInputs : SetCurrentTime(tv)
  \/ \E bands \in BandInputs : SetBands(bands)
  \/ NextTimestep
  \/ PreviousTimestep
  \/ \E n \in StepInputs : NextTimesteps(n)
  \/ \E n \in StepInputs : PreviousTimesteps(n)
  \/ GetCurrent

Spec == Init /\ [][Next]_vars

(***************************************************************************)
(* SpecLoader: the tile loader, the worker pool and the workers'           *)
(* responses, interleaved with view-state changes (a time change and two   *)
(* band changes are enough to make every cache state occur).               *)
(***************************************************************************)
LoaderTimeInputs == {Num(0), Num(1)}
LoaderBandInputs == {BandList(<<Num(0)>>), BandList(<<Num(1)>>)}

NextLoader ==
  \/ \E index \in LoaderTimeInputs : SetCurrentTimeIndex(index)
  \/ \E bands \in LoaderBandInputs : SetBands(bands)
  \/ GetCurrent
  \/ \E z \in ZoomInputs : TileLoader(z)
  \/ \E r \in DOMAIN requests : TileLoaderPost(r)
  \/ \E w \in DOMAIN workers : \E j \in 1..MaxRequests : \E ok \in BOOLEAN :
        WorkerRespond(w, j, ok)
  \/ \E w \in DOMAIN workers : OnMessage(w)
  \/ TerminateAllWorkers

SpecLoader == Init /\ [][NextLoader]_vars

(***************************************************************************)
(* SpecPool: dispatch, responses, uncaught worker errors and the static    *)
(* pool, on one source whose view state is left alone.  The pool is static *)
(* and shared by every source of the page, so it may already hold idle     *)
(* workers when this source starts loading tiles.                          *)
(***************************************************************************)
PoolSizes == {0, maxWorkers_ - 1, maxWorkers_}

InitPool ==
  /\ config_ = ConfigStrings
  /\ timestamps_ = config_.timestamps
  /\ currentTimeIndex_ = 0
  /\ bands_ = config_.bands
  /\ resolvedCache_ = InitialCache
  /\ values_ = [time |-> config_.timestamps[1], bands |-> config_.bands]
  /\ \E k \in PoolSizes :
        /\ workers = [i \in 1..k |-> NewWorker]
        /\ workerPool_ = [i \in 1..k |-> i]
  /\ requests = <<>>
  /\ tasks = <<>>
  /\ creation = NoCreation
  /\ last = Call("create", NoArg, NoBandsArg, NoTs, FALSE, "none", 0)

NextPool ==
  \/ \E z \in ZoomInputs : TileLoader(z)
  \/ \E r \in DOMAIN requests : TileLoaderPost(r)
  \/ \E w \in DOMAIN workers : \E j \in 1..MaxRequests : \E ok \in BOOLEAN :
        WorkerRespond(w, j, ok)
  \/ \E w \in DOMAIN workers : \E j \in 1..MaxRequests : WorkerRaise(w, j)
  \/ \E w \in DOMAIN workers : OnMessage(w)
  \/ \E w \in DOMAIN workers : OnError(w)
  \/ TerminateAllWorkers

SpecPool == InitPool /\ [][NextPool]_vars

(***************************************************************************)
(* SpecSettle: more tile requests in flight, on a pool that starts empty,  *)
(* with the scheduling the platform guarantees: the continuation after the *)
(* await runs, delivered events reach their handler, and (the assumption   *)
(* of the settlement claim) a worker that holds a request answers it or    *)
(* raises an error.                                                        *)
(***************************************************************************)
MaxTiles == 3

SettleZoomInputs == {0}

InitSettle ==
  /\ config_ = ConfigStrings
  /\ timestamps_ = config_.timestamps
  /\ currentTimeIndex_ = 0
  /\ bands_ = config_.bands
  /\ resolvedCache_ = InitialCache
  /\ values_ = [time |-> config_.timestamps[1], bands |-> config_.bands]
  /\ workers = <<>>
  /\ workerPool_ = <<>>
  /\ requests = <<>>
  /\ tasks = <<>>
  /\ creation = NoCreation
  /\ last = Call("create", NoArg, NoBandsArg, NoTs, FALSE, "none", 0)

\* worker w answers one of the requests it holds, or raises an error
WorkerAnswers(w) ==
  /\ w \in DOMAIN workers
  /\ \E j \in 1..MaxTiles :
        \/ \E ok \in BOOLEAN : WorkerRespond(w, j, ok)
        \/ WorkerRaise(w, j)

\* the main thread handles the next event of worker w
Deliver(w) ==
  /\ w \in DOMAIN workers
  /\ (OnMessage(w) \/ OnError(w))

\* the continuation of request r after the await
Resume(r) ==
  /\ r \in DOMAIN requests
  /\ TileLoaderPost(r)

NextSettle ==
  \/ \E z \in SettleZoomInputs : TileLoaderWithin(z, MaxTiles)
  \/ \E r \in 1..MaxTiles : Resume(r)
  \/ \E w \in 1..MaxTiles : WorkerAnswers(w)
  \/ \E w \in 1..MaxTiles : Deliver(w)

SpecSettle ==
  /\ InitSettle
  /\ [][NextSettle]_vars
  /\ \A r \in 1..MaxTiles : WF_vars(Resume(r))
  /\ \A w \in 1..MaxTiles : WF_vars(WorkerAnswers(w))
  /\ \A w \in 1..MaxTiles : WF_vars(Deliver(w))

(***************************************************************************)
(* SpecWorker: the worker's message handler.  Each invocation of           *)
(* self.onmessage is a task [bands, pc, reads, posted]: the number of      *)
(* bands of the request, where the handler stands ("opening": awaiting     *)
(* openArray, "reading": awaiting Promise.all of the band reads, "done"),  *)
(* the state of each band's valueArray.get, and the responses posted for   *)
(* the request so far.  Several requests may be in the worker at once.     *)
(***************************************************************************)
MaxTasks == 2

\* the band-list lengths a request message carries
MessageArities == {1, 3}

SourceUnchanged ==
  UNCHANGED <<config_, timestamps_, currentTimeIndex_, bands_, resolvedCache_,
              values_, workerPool_, workers, requests, creation>>

\* self.onmessage up to `await openArray(...)`
WorkerOnMessage(n) ==
  /\ Len(tasks) < MaxTasks
  /\ tasks' = Append(tasks, [bands |-> n, pc |-> "opening",
                             reads |-> [b \in 1..n |-> "idle"], posted |-> <<>>])
  /\ last' = Call("worker.onmessage", Num(n), NoBandsArg, NoTs, FALSE, "none", 0)
  /\ SourceUnchanged

\* openArray settles.  On success the handler computes the indices, allocates
\* the tile and starts one read per band (bands.map), then awaits
\* Promise.all; on failure the catch block posts {error, success: false}.
OpenArrayDone(t, ok) ==
  /\ t \in DOMAIN tasks
  /\ tasks[t].pc = "opening"
  /\ tasks' = [tasks EXCEPT ![t] =
        IF ok THEN [@ EXCEPT !.pc = "reading",
                             !.reads = [b \in DOMAIN @ |-> "pending"]]
              ELSE [@ EXCEPT !.pc = "done", !.posted = Append(@, "error")]]
  /\ last' = Call("worker.openArray", Num(t), NoBandsArg, NoTs, ~ok, "none", 0)
  /\ SourceUnchanged

\* the handler posting a response for every band that settles
AfterBandSettledEachBand(task) ==
  IF \E b \in DOMAIN task.reads : task.reads[b] = "failed"
    THEN [task EXCEPT !.pc = "done", !.posted = Append(@, "error")]
  ELSE IF \A b \in DOMAIN task.reads : task.reads[b] = "ok"
    THEN [task EXCEPT !.pc = "done", !.posted = Append(@, "success")]
  ELSE task

\* the handler after a band promise settled: Promise.all rejects with the
\* first failure (catch block: post the error) and fulfils when every band
\* is done (alpha channel, then post {tileData, success: true}); once the
\* handler has left the await, later band results change nothing
AfterBandSettled(task) ==
  IF task.pc # "reading" THEN task
  ELSE IF \E b \in DOMAIN task.reads : task.reads[b] = "failed"
    THEN [task EXCEPT !.pc = "done", !.posted = Append(@, "error")]
  ELSE IF \A b \in DOMAIN task.reads : task.reads[b] = "ok"
    THEN [task EXCEPT !.pc = "done", !.posted = Append(@, "success")]
  ELSE task

\* valueArray.get of band b settles: on success the band's pixel loop runs
\* and the band promise fulfils, on failure it rejects
BandGetDone(t, b, ok) ==
  /\ t \in DOMAIN tasks
  /\ b \in DOMAIN tasks[t].reads
  /\ tasks[t].reads[b] = "pending"
  /\ tasks' = [tasks EXCEPT ![t] =
        AfterBandSettled([@ EXCEPT !.reads[b] = IF ok THEN "ok" ELSE "failed"])]
  /\ last' = Call("worker.get", Num(t), NoBandsArg, NoTs, ~ok, "none", 0)
  /\ SourceUnchanged

InitWorker ==
  /\ config_ = ConfigStrings
  /\ timestamps_ = config_.timestamps
  /\ currentTimeIndex_ = 0
  /\ bands_ = config_.bands
  /\ resolvedCache_ = InitialCache
  /\ values_ = [time |-> config_.timestamps[1], bands |-> config_.bands]
  /\ workerPool_ = <<>>
  /\ workers = <<>>
  /\ requests = <<>>
  /\ tasks = <<>>
  /\ creation = NoCreation
  /\ last = Call("create", NoArg, NoBandsArg, NoTs, FALSE, "none", 0)

NextWorker ==
  \/ \E n \in MessageArities : WorkerOnMessage(n)
  \/ \E t \in 1..MaxTasks : \E ok \in BOOLEAN : OpenArrayDone(t, ok)
  \/ \E t \in 1..MaxTasks : \E b \in 1..3 : \E ok \in BOOLEAN :
        BandGetDone(t, b, ok)

SpecWorker == InitWorker /\ [][NextWorker]_vars

(***************************************************************************)
(* ZarrTile.create.  The inputs are the options object and the Zarr store  *)
(* the url/path point at; the phases of create are the actions.            *)
(*                                                                         *)
(* A value of an option or of a metadata attribute is [kind, vals]:        *)
(*   "undef"  undefined (the key is missing)      "null"  null             *)
(*   "num"    the finite number vals[1]           "nan"   NaN              *)
(*   "str"    a string: vals = <<>> is '', <<0>> is blank, <<c>> is text   *)
(*   "array"  an array of finite numbers vals                              *)
(*   "object" the object {xmin, ymin, xmax, ymax} with the numbers vals    *)
(***************************************************************************)
JsUndef == [kind |-> "undef", vals |-> <<>>]
JsNull == [kind |-> "null", vals |-> <<>>]
JsNum(x) == [kind |-> "num", vals |-> <<x>>]
JsNaN == [kind |-> "nan", vals |-> <<>>]
JsStr(c) == [kind |-> "str", vals |-> <<c>>]
JsEmptyStr == [kind |-> "str", vals |-> <<>>]
JsArr(s) == [kind |-> "array", vals |-> s]
JsObj(s) == [kind |-> "object", vals |-> s]

\* the truthiness of a value: undefined, null, NaN, 0 and '' are falsy
Truthy(v) ==
  /\ v.kind \notin {"undef", "null", "nan"}
  /\ ~(v.kind = "num" /\ v.vals[1] = 0)
  /\ ~(v.kind = "str" /\ v.vals = <<>>)

\* a || b
OrElse2(a, b) == IF Truthy(a) THEN a ELSE b

\* the outcome of a call that may throw: the error names the failing field
Ok(v) == [ok |-> TRUE, value |-> v, error |-> "none"]
Throw(field) == [ok |-> FALSE, value |-> JsUndef, error |-> field]

(***************************************************************************)
(* ZarrTileValidator.validateRequired                                      *)
(***************************************************************************)
\* !s || typeof s !== 'string' || s.trim() === ''
NotNonEmptyString(s) ==
  \/ ~Truthy(s)
  \/ s.kind # "str"
  \/ s.vals = <<0>>

ValidateRequired(options) ==
  IF NotNonEmptyString(options.url) \/ NotNonEmptyString(options.path)
    THEN Throw("required") ELSE Ok(JsUndef)

(***************************************************************************)
(* ZarrTileValidator.validateExtent                                        *)
(***************************************************************************)
ValidateExtent(extent) ==
  IF ~Truthy(extent) THEN Ok(JsNull)
  ELSE IF extent.kind \in {"object", "array"} /\ Len(extent.vals) = 4
    THEN IF extent.vals[1] >= extent.vals[3] \/ extent.vals[2] >= extent.vals[4]
           THEN Throw("extent")
           ELSE Ok(JsArr(extent.vals))
    ELSE Throw("extent")

(***************************************************************************)
(* ZarrTileValidator.validateZoomAndResolutions.  The result is the pair   *)
(* of copies; a thrown error names zoomLevels or resolutions.              *)
(***************************************************************************)
ZoomPair(z, r) == [ok |-> TRUE, zoomLevels |-> z, resolutions |-> r, error |-> "none"]
ZoomThrow(field) ==
  [ok |-> FALSE, zoomLevels |-> <<>>, resolutions |-> <<>>, error |-> field]

ValidateZoomAndResolutions(zoomLevels, resolutions) ==
  LET z == zoomLevels.vals
      r == resolutions.vals
  IN IF zoomLevels.kind # "array" THEN ZoomThrow("zoomLevels")
     ELSE IF resolutions.kind # "array" THEN ZoomThrow("resolutions")
     ELSE IF Len(z) = 0 THEN ZoomThrow("zoomLevels")
     ELSE IF Len(r) = 0 THEN ZoomThrow("resolutions")
     ELSE IF Len(z) # Len(r) THEN ZoomThrow("zoomLevels")
     ELSE IF \E i \in DOMAIN z : z[i] < 0 THEN ZoomThrow("zoomLevels")
     ELSE IF \E i, j \in DOMAIN z : i # j /\ z[i] = z[j] THEN ZoomThrow("zoomLevels")
     ELSE IF \E i \in DOMAIN r : r[i] <= 0 THEN ZoomThrow("resolutions")
     ELSE IF \E i, j \in DOMAIN r : i # j /\ r[i] = r[j] THEN ZoomThrow("resolutions")
     ELSE IF \E i, j \in DOMAIN z : i < j /\ z[i] > z[j] THEN ZoomThrow("zoomLevels")
     ELSE IF \E i, j \in DOMAIN r : i < j /\ r[i] < r[j] THEN ZoomThrow("resolutions")
     ELSE ZoomPair(z, r)

(***************************************************************************)
(* ZarrTileValidator.validateNodata.  The value is stored as the resolved  *)
(* configuration stores it ([kind, vals] with kind "num", "array" or       *)
(* "null"); the format null is written "none".                             *)
(***************************************************************************)
NodataIs(value, format) ==
  [ok |-> TRUE, value |-> value, format |-> format, error |-> "none"]
NodataNone == NodataIs([kind |-> "null", vals |-> <<>>], "none")
NodataThrow == [ok |-> FALSE, value |-> [kind |-> "null", vals |-> <<>>],
                format |-> "none", error |-> "nodata"]

ValidateNodata(nodata, bandsConfig, totalBandsAvailable) ==
  CASE nodata.kind \in {"null", "undef"} -> NodataNone
    [] nodata.kind = "nan" -> NodataThrow
    [] nodata.kind = "num" -> NodataIs([kind |-> "num", vals |-> nodata.vals], "global")
    [] nodata.kind = "array" ->
         IF Len(nodata.vals) = 0 THEN NodataThrow
         ELSE IF Len(nodata.vals) = Len(bandsConfig)
           THEN NodataIs([kind |-> "array", vals |-> nodata.vals], "per_band_composition")
         ELSE IF totalBandsAvailable # 0 /\ Len(nodata.vals) = totalBandsAvailable
           THEN NodataIs([kind |-> "array", vals |-> nodata.vals], "per_dataset_band")
         ELSE NodataThrow
    [] OTHER -> NodataThrow

(***************************************************************************)
(* The dataset attribute document (.zattrs of the group), as far as the    *)
(* resolver reads it.  EmptyDoc is {}.                                     *)
(***************************************************************************)
GroupDoc(crs, extent, zoom_levels, zoomLevels, resolutions, nodata) ==
  [crs |-> crs, extent |-> extent, zoom_levels |-> zoom_levels,
   zoomLevels |-> zoomLevels, resolutions |-> resolutions, nodata |-> nodata]
EmptyDoc == GroupDoc(JsUndef, JsUndef, JsUndef, JsUndef, JsUndef, JsUndef)

\* DEFAULTS.crs is 'EPSG:4326', the string with code 1
DefaultCrs == JsStr(1)

\* resolveAllProperties, property 1
ResolveCrs(options, groupMetadata) ==
  OrElse2(options.crs, OrElse2(groupMetadata.crs, DefaultCrs))

(***************************************************************************)
(* ZarrTileResolver._resolveExtent                                         *)
(***************************************************************************)
ResolveExtent(options, groupMetadata) ==
  IF Truthy(options.extent) THEN ValidateExtent(options.extent)
  ELSE IF Truthy(groupMetadata.extent) THEN ValidateExtent(groupMetadata.extent)
  ELSE Throw("extent")

(***************************************************************************)
(* ZarrTileResolver._resolveZoomAndResolutions                             *)
(***************************************************************************)
ResolveZoomAndResolutions(options, groupMetadata) ==
  IF Truthy(options.zoomLevels) /\ Truthy(options.resolutions)
    THEN ValidateZoomAndResolutions(options.zoomLevels, options.resolutions)
  ELSE IF Truthy(groupMetadata.zoom_levels) /\ Truthy(groupMetadata.resolutions)
    THEN ValidateZoomAndResolutions(groupMetadata.zoom_levels, groupMetadata.resolutions)
  ELSE IF Truthy(groupMetadata.zoomLevels) /\ Truthy(groupMetadata.resolutions)
    THEN ValidateZoomAndResolutions(groupMetadata.zoomLevels, groupMetadata.resolutions)
  ELSE ZoomThrow("zoomLevels")

(***************************************************************************)
(* ZarrTileResolver._resolveNodata.  The value array metadata is           *)
(* [shape, dtype, fill_value].                                             *)
(***************************************************************************)
ResolveNodata(options, groupMetadata, valueArrayMetadata, bandsConfig) ==
  LET totalBands == IF Len(valueArrayMetadata.shape) >= 2
                      THEN valueArrayMetadata.shape[2] ELSE 0
  IN IF options.nodata.kind # "undef"
       THEN ValidateNodata(options.nodata, bandsConfig, totalBands)
     ELSE IF groupMetadata.nodata.kind # "undef"
       THEN ValidateNodata(groupMetadata.nodata, bandsConfig, totalBands)
     ELSE IF valueArrayMetadata.fill_value.kind \notin {"undef", "null"}
       THEN ValidateNodata(valueArrayMetadata.fill_value, bandsConfig, totalBands)
     ELSE NodataNone

(***************************************************************************)
(* ZarrTileValidator.validateTimestamps.  The timestamps option is         *)
(* [kind, n, elems]: undefined, the integer n ("num"), a non-integer       *)
(* number ("frac"), a string ("str") or an array of elements.  Besides the *)
(* stored timestamp types an element may be                                *)
(*   "iso"      a string that Date parses, to the time v                   *)
(*   "blank"    a string of white space                                    *)
(*   "baddate"  a Date whose getTime() is NaN                              *)
(*   "frac"     a non-integer number           "null"  null                *)
(***************************************************************************)
IsoTs(v) == [type |-> "iso", v |-> v, ref |-> 0]
BlankTs == [type |-> "blank", v |-> 0, ref |-> 0]
BadDateTs(r) == [type |-> "baddate", v |-> 0, ref |-> r]
FracTs == [type |-> "frac", v |-> 0, ref |-> 0]

TsUndef == [kind |-> "undef", n |-> 0, elems |-> <<>>]
TsCount(n) == [kind |-> "num", n |-> n, elems |-> <<>>]
TsFrac == [kind |-> "frac", n |-> 0, elems |-> <<>>]
TsString == [kind |-> "str", n |-> 0, elems |-> <<>>]
TsArray(s) == [kind |-> "array", n |-> 0, elems |-> s]

\* !timestamps : undefined and the number 0 are falsy
TsFalsy(t) == t.kind = "undef" \/ (t.kind = "num" /\ t.n = 0)

\* ZarrTileValidator._getTimestampType
GetTimestampType(e) ==
  CASE e.type = "integer" -> "integer"
    [] e.type \in {"date", "baddate"} -> "date"
    [] e.type \in {"string", "iso", "blank"} -> "string"
    [] OTHER -> "unknown"

TsResult(timestamps, type) ==
  [ok |-> TRUE, isNull |-> FALSE, timestamps |-> timestamps, type |-> type,
   error |-> "none"]
TsNull == [ok |-> TRUE, isNull |-> TRUE, timestamps |-> <<>>, type |-> "none",
           error |-> "none"]
TsThrow == [ok |-> FALSE, isNull |-> TRUE, timestamps |-> <<>>, type |-> "none",
            error |-> "timestamps"]

\* a string element as the string id it is kept as
RawString(e) ==
  StrTs(CASE e.type = "string" -> e.v
          [] e.type = "iso" -> 1000 + e.v
          [] OTHER -> -1)

ValidateTimestampArray(elems) ==
  LET firstType == GetTimestampType(elems[1])
      \* the parse loop stops at the first string that is no date
      stops == {i \in DOMAIN elems : elems[i].type # "iso"}
      stop == CHOOSE i \in stops : \A j \in stops : i <= j
  IN IF \E i \in DOMAIN elems : GetTimestampType(elems[i]) # firstType
       THEN TsThrow
     ELSE CASE firstType = "integer" ->
                 IF \E i \in DOMAIN elems : elems[i].v < 0
                   THEN TsThrow ELSE TsResult(elems, "integer_ids")
            [] firstType = "date" ->
                 IF \E i \in DOMAIN elems : elems[i].type = "baddate" THEN TsThrow
                 ELSE IF \E i, j \in DOMAIN elems : i # j /\ elems[i].v = elems[j].v
                   THEN TsThrow
                 ELSE TsResult(elems, "date_objects")
            [] firstType = "string" ->
                 IF stops = {}
                   THEN IF \E i, j \in DOMAIN elems : i # j /\ elems[i].v = elems[j].v
                          THEN TsThrow
                          ELSE TsResult([i \in DOMAIN elems |-> DateTs(elems[i].v, i)],
                                        "iso_strings")
                 ELSE IF elems[stop].type = "blank" THEN TsThrow
                 ELSE IF \E i, j \in DOMAIN elems :
                            i # j /\ RawString(elems[i]) = RawString(elems[j])
                   THEN TsThrow
                 ELSE TsResult([i \in DOMAIN elems |-> RawString(elems[i])],
                               "string_ids")
            [] OTHER -> TsThrow

ValidateTimestamps(timestamps) ==
  IF TsFalsy(timestamps) THEN TsNull
  ELSE CASE timestamps.kind = "num" ->
              IF timestamps.n <= 0 \/ timestamps.n > 100000 THEN TsThrow
              ELSE TsResult([i \in 1..timestamps.n |-> IntTs(i - 1)], "integer_count")
         [] timestamps.kind = "array" ->
              IF Len(timestamps.elems) = 0 THEN TsThrow
              ELSE ValidateTimestampArray(timestamps.elems)
         [] OTHER -> TsThrow

(***************************************************************************)
(* The Zarr store.  [group, valueAt, timeAt, statsAt]: the fetch of the    *)
(* attribute document, and the arrays found at each location.  A location  *)
(* is -1 for the dataset root (path/name) or a zoom z (path/z/name); a     *)
(* location outside a function's domain holds no array.                    *)
(***************************************************************************)
RootLoc == -1

GroupFetched(doc) == [ok |-> TRUE, doc |-> doc]
GroupFetchFails == [ok |-> FALSE, doc |-> EmptyDoc]

ValueArr(shape, dtype, fill_value) ==
  [ok |-> TRUE, shape |-> shape, dtype |-> dtype, fill_value |-> fill_value]
NoValueArr == [ok |-> FALSE, shape |-> <<>>, dtype |-> "", fill_value |-> JsUndef]

\* a time array: its data is an array of elements [type, v] with type
\*   "seconds" (the number v), "nan" (NaN), "isostring" (parses to time v),
\*   "badstring" (does not parse), "other" (neither number nor string)
TimeArr(data) == [ok |-> TRUE, isArray |-> TRUE, data |-> data]
TimeNotArray == [ok |-> TRUE, isArray |-> FALSE, data |-> <<>>]
NoTimeArr == [ok |-> FALSE, isArray |-> FALSE, data |-> <<>>]
Seconds(v) == [type |-> "seconds", v |-> v]
IsoString(v) == [type |-> "isostring", v |-> v]

\* a statistics array of the given shape; the cell [t][b][s] holds StatsCell
StatsArr(shape) == [ok |-> TRUE, shape |-> shape]
NoStatsArr == [ok |-> FALSE, shape |-> <<>>]
StatsCell(t, b, s) == 100 * s + 10 * b + t

AtLoc(f, loc, none) == IF loc \in DOMAIN f THEN f[loc] ELSE none

\* zoomLevels && zoomLevels.length > 0, for a value that may be no array
HasZooms(z) == z.kind = "array" /\ Len(z.vals) > 0

(***************************************************************************)
(* ZarrTileExtractor.extractGroupMetadata: any failure gives {}.           *)
(***************************************************************************)
ExtractGroupMetadata(store) ==
  Ok(IF store.group.ok THEN store.group.doc ELSE EmptyDoc)

(***************************************************************************)
(* ZarrTileExtractor.extractValueArrayMetadata                             *)
(***************************************************************************)
ExtractValueArrayMetadata(store, zoomLevels) ==
  LET loc == IF HasZooms(zoomLevels) THEN SeqMax(zoomLevels.vals) ELSE RootLoc
      arr == AtLoc(store.valueAt, loc, NoValueArr)
  IN IF arr.ok
       THEN [ok |-> TRUE, error |-> "none", loc |-> loc, shape |-> arr.shape,
             dtype |-> arr.dtype, fill_value |-> arr.fill_value]
       ELSE [ok |-> FALSE, error |-> "valueArray", loc |-> loc, shape |-> <<>>,
             dtype |-> "", fill_value |-> JsUndef]

(***************************************************************************)
(* ZarrTileExtractor.extractTimestamps: the candidates are the root and    *)
(* then the highest zoom; each is tried inside its own try block and the   *)
(* first that converts wholly is returned, otherwise null.                 *)
(***************************************************************************)
\* one candidate: open, read, convert every element to a Date
TryTimeArray(arr) ==
  IF arr.ok /\ arr.isArray
        /\ \A i \in DOMAIN arr.data : arr.data[i].type \in {"seconds", "isostring"}
    THEN TsResult([i \in DOMAIN arr.data |->
                     DateTs(IF arr.data[i].type = "seconds"
                              THEN arr.data[i].v * 1000 ELSE arr.data[i].v, i)],
                  "extracted_dates")
    ELSE TsThrow

CandidateLocs(zoomLevels) ==
  <<RootLoc>> \o (IF Len(zoomLevels) > 0 THEN <<SeqMax(zoomLevels)>> ELSE <<>>)

FirstSuccess(tries) ==
  LET good == {i \in DOMAIN tries : tries[i].ok}
  IN IF good = {} THEN TsNull
     ELSE tries[CHOOSE i \in good : \A j \in good : i <= j]

ExtractTimestampsZoomFirst(store, zoomLevels) ==
  LET locs == CandidateLocs(zoomLevels)
  IN FirstSuccess([i \in DOMAIN locs |->
        TryTimeArray(AtLoc(store.timeAt, locs[Len(locs) + 1 - i], NoTimeArr))])

ExtractTimestamps(store, zoomLevels) ==
  LET locs == CandidateLocs(zoomLevels)
  IN FirstSuccess([i \in DOMAIN locs |->
        TryTimeArray(AtLoc(store.timeAt, locs[i], NoTimeArr))])

(***************************************************************************)
(* ZarrTileResolver._resolveTimestamps: the user's value, else the time    *)
(* array, else the first dimension of the value array, else an error.      *)
(***************************************************************************)
ShapeTimestamps(shape) ==
  IF Len(shape) >= 3 /\ shape[1] > 1
    THEN TsResult([i \in 1..shape[1] |-> IntTs(i - 1)], "inferred_from_shape")
  ELSE IF Len(shape) >= 3 /\ shape[1] = 1
    THEN TsResult(<<IntTs(0)>>, "single_timestep")
  ELSE TsThrow

ResolveTimestampsWith(extracted, options, valueArrayMetadata) ==
  IF ~TsFalsy(options.timestamps) THEN ValidateTimestamps(options.timestamps)
  ELSE IF ~extracted.isNull /\ Len(extracted.timestamps) > 0
    THEN TsResult(extracted.timestamps, "extracted_dates")
  ELSE ShapeTimestamps(valueArrayMetadata.shape)

ResolveTimestamps(options, store, zoomLevels, valueArrayMetadata) ==
  ResolveTimestampsWith(ExtractTimestamps(store, zoomLevels), options,
                        valueArrayMetadata)

(***************************************************************************)
(* ZarrTileResolver._resolveBands.  The bands option is [given, value];    *)
(* a value that is no array stands for a non-empty string.                 *)
(***************************************************************************)
NoBandsOption == [given |-> FALSE, value |-> NotAnArray]
BandsOption(b) == [given |-> TRUE, value |-> b]

\* DEFAULTS.bands
DefaultBands == BandList(<<Num(0)>>)

TotalBandsOf(shape) == IF Len(shape) >= 2 THEN Num(shape[2]) ELSE NullV

ResolveBandsUnchecked(options, valueArrayMetadata) ==
  LET bands == IF options.bands.given THEN options.bands.value ELSE DefaultBands
  IN [ok |-> TRUE,
      bands |-> [i \in DOMAIN bands.elems |-> bands.elems[i].val]]

ResolveBands(options, valueArrayMetadata) ==
  LET bands == IF options.bands.given THEN options.bands.value ELSE DefaultBands
  IN ValidateBands(bands, TotalBandsOf(valueArrayMetadata.shape))

(***************************************************************************)
(* ZarrTileValidator.validateStatisticsKeyIndices.  The option is          *)
(* [kind, idx] with idx the index of each key; NoIndex marks a key the     *)
(* object does not have.  The default carries the four keys of StatKeys    *)
(* out of the seven of DEFAULTS.statistics_key_indices.                    *)
(***************************************************************************)
NoIndex == -1000
KeyIndicesUndef == [kind |-> "undef", idx |-> [k \in StatKeys |-> NoIndex]]
KeyIndicesString == [kind |-> "str", idx |-> [k \in StatKeys |-> NoIndex]]
KeyIndices(idx) == [kind |-> "object", idx |-> idx]
DefaultKeyIndices == [min |-> 0, max |-> 1, mean |-> 2, std |-> 6]

KeysOf(idx) == {k \in StatKeys : idx[k] # NoIndex}

ValidateStatisticsKeyIndices(keyIndices) ==
  LET idx == keyIndices.idx
  IN IF keyIndices.kind # "object" THEN Throw("statistics_key_indices")
     ELSE IF \E k \in {"min", "max"} : idx[k] = NoIndex \/ idx[k] < 0
       THEN Throw("statistics_key_indices")
     ELSE IF \E k \in KeysOf(idx) : idx[k] < 0 THEN Throw("statistics_key_indices")
     ELSE IF \E j, k \in KeysOf(idx) : j # k /\ idx[j] = idx[k]
       THEN Throw("statistics_key_indices")
     ELSE Ok(JsUndef)

(***************************************************************************)
(* ZarrTileExtractor.extractStatistics and _convertStatsArrayToCase5: the  *)
(* root and then the highest zoom, the first 3-D array wins, else null.    *)
(***************************************************************************)
StatsResult(statistics, format, keys) ==
  [ok |-> TRUE, isNull |-> FALSE, statistics |-> statistics, format |-> format,
   keys |-> keys, error |-> "none"]
StatsNull == [ok |-> TRUE, isNull |-> TRUE, statistics |-> <<>>, format |-> "none",
              keys |-> {}, error |-> "none"]
StatsThrow == [ok |-> FALSE, isNull |-> TRUE, statistics |-> <<>>, format |-> "none",
               keys |-> {}, error |-> "statistics"]

ConvertStatsArrayToCase5(shape, idx) ==
  [b \in 1..shape[2] |->
     [k \in StatKeys |->
        IF idx[k] = NoIndex THEN Absent
        ELSE Ar([t \in 1..shape[1] |-> StatsCell(t - 1, b - 1, idx[k])])]]

TryStatsArray(arr, idx) ==
  IF arr.ok /\ Len(arr.shape) = 3
    THEN StatsResult(ConvertStatsArrayToCase5(arr.shape, idx), "case5", KeysOf(idx))
    ELSE StatsThrow

ExtractStatistics(store, zoomLevels, idx) ==
  LET locs == CandidateLocs(zoomLevels)
      tries == [i \in DOMAIN locs |->
                  TryStatsArray(AtLoc(store.statsAt, locs[i], NoStatsArr), idx)]
      good == {i \in DOMAIN tries : tries[i].ok}
  IN IF good = {} THEN StatsNull
     ELSE tries[CHOOSE i \in good : \A j \in good : i <= j]

(***************************************************************************)
(* ZarrTileResolver._identifyAndValidateStatisticsFormat, with             *)
(* _validateStatisticsCase2or3 and _validateStatisticsCase4or5.  The       *)
(* statistics option is [kind, entries]: undefined, one object ("object",  *)
(* entries = <<e>>), an array of objects or a number.                      *)
(***************************************************************************)
StatsUndef == [kind |-> "undef", entries |-> <<>>]
StatsObject(e) == [kind |-> "object", entries |-> <<e>>]
StatsArray(s) == [kind |-> "array", entries |-> s]
StatsNumber == [kind |-> "num", entries |-> <<>>]

EntryKeys(e) == {k \in StatKeys : e[k].present}
HasRequiredKeys(e) == e["min"].present /\ e["max"].present

ValidateStatisticsCase2or3(entries) ==
  \A i \in DOMAIN entries :
     /\ HasRequiredKeys(entries[i])
     /\ \A k \in EntryKeys(entries[i]) : ~entries[i][k].isArray

ValidateStatisticsCase4or5(entries, expectedTimeCount) ==
  \A i \in DOMAIN entries :
     /\ HasRequiredKeys(entries[i])
     /\ \A k \in EntryKeys(entries[i]) :
          entries[i][k].isArray /\ Len(entries[i][k].vals) = expectedTimeCount

\* the detection that never compares the length with the composition size
IdentifyPerDatasetBandOnly(statistics, bandsConfig, timestampsConfig) ==
  LET entries == statistics.entries
      timeCount == Len(timestampsConfig)
      hasArrayValues == \E k \in EntryKeys(entries[1]) : entries[1][k].isArray
  IN CASE statistics.kind = "object" ->
            IF HasRequiredKeys(entries[1])
                 /\ \A k \in EntryKeys(entries[1]) : ~entries[1][k].isArray
              THEN StatsResult(entries, "case1", EntryKeys(entries[1]))
              ELSE StatsThrow
       [] statistics.kind = "array" ->
            IF Len(entries) = 0 THEN StatsThrow
            ELSE IF ~hasArrayValues
              THEN IF ValidateStatisticsCase2or3(entries)
                     THEN StatsResult(entries, "case3", EntryKeys(entries[1]))
                     ELSE StatsThrow
            ELSE IF ValidateStatisticsCase4or5(entries, timeCount)
              THEN StatsResult(entries, "case5", EntryKeys(entries[1]))
            ELSE StatsThrow
       [] OTHER -> StatsThrow

IdentifyAndValidateStatisticsFormat(statistics, bandsConfig, timestampsConfig) ==
  LET entries == statistics.entries
      bandCount == Len(bandsConfig)
      timeCount == Len(timestampsConfig)
      hasArrayValues == \E k \in EntryKeys(entries[1]) : entries[1][k].isArray
  IN CASE statistics.kind = "object" ->
            IF HasRequiredKeys(entries[1])
                 /\ \A k \in EntryKeys(entries[1]) : ~entries[1][k].isArray
              THEN StatsResult(entries, "case1", EntryKeys(entries[1]))
              ELSE StatsThrow
       [] statistics.kind = "array" ->
            IF Len(entries) = 0 THEN StatsThrow
            ELSE IF ~hasArrayValues
              THEN IF ValidateStatisticsCase2or3(entries)
                     THEN StatsResult(entries,
                            IF Len(entries) = bandCount THEN "case2" ELSE "case3",
                            EntryKeys(entries[1]))
                     ELSE StatsThrow
            ELSE IF ValidateStatisticsCase4or5(entries, timeCount)
              THEN StatsResult(entries,
                     IF Len(entries) = bandCount THEN "case4" ELSE "case5",
                     EntryKeys(entries[1]))
            ELSE StatsThrow
       [] OTHER -> StatsThrow

(***************************************************************************)
(* ZarrTileResolver._resolveStatistics: the user's statistics, else the    *)
(* statistics array, else the limits of the dtype.                         *)
(***************************************************************************)
DtypeStatistics(dtype) ==
  <<[min |-> Sc(GetDtypeLimits(dtype).min.val),
     max |-> Sc(GetDtypeLimits(dtype).max.val),
     mean |-> Absent, std |-> Absent]>>

ResolveStatistics(options, store, bands, timestamps, zoomLevels, valueArrayMetadata) ==
  LET given == options.statistics_key_indices.kind # "undef"
      checked == ValidateStatisticsKeyIndices(options.statistics_key_indices)
      idx == IF given THEN options.statistics_key_indices.idx ELSE DefaultKeyIndices
      extracted == ExtractStatistics(store, zoomLevels, idx)
      found ==
        IF options.statistics.kind # "undef"
          THEN IdentifyAndValidateStatisticsFormat(options.statistics, bands, timestamps)
        ELSE IF ~extracted.isNull THEN extracted
        ELSE StatsResult(DtypeStatistics(valueArrayMetadata.dtype), "case1",
                         {"min", "max"})
  IN IF given /\ ~checked.ok
       THEN [StatsThrow EXCEPT !.error = checked.error] @@ [keyIndices |-> idx]
       ELSE found @@ [keyIndices |-> idx]

(***************************************************************************)
(* ZarrTileValidator.validateNormalization.  A key or strategy property is *)
(* [kind, name]: undefined, the string name ('' and ' ' included) or a     *)
(* number.                                                                 *)
(***************************************************************************)
KeyUndef == [kind |-> "undef", name |-> ""]
KeyStr(name) == [kind |-> "str", name |-> name]
KeyNum == [kind |-> "num", name |-> ""]

\* typeof k !== 'string' || k.trim() === ''
NotNonBlankKey(k) == k.kind # "str" \/ k.name \in {"", " "}

NormalizeUndef ==
  [kind |-> "undef", min_key |-> KeyUndef, max_key |-> KeyUndef, strategy |-> KeyUndef]
NormalizeObject(min_key, max_key, strategy) ==
  [kind |-> "object", min_key |-> min_key, max_key |-> max_key, strategy |-> strategy]

NORMALIZATION_STRATEGIES ==
  {"global", "global_band_per_time", "per_band_global_time", "per_band_per_time"}

NormalizeIs(n) == [ok |-> TRUE, value |-> n, error |-> "none"]
NormalizeThrow == [ok |-> FALSE, value |-> NoNormalize, error |-> "normalize"]

ValidateNormalization(normalize, availableStatsKeys) ==
  IF normalize.kind \in {"undef", "null"} THEN NormalizeIs(NoNormalize)
  ELSE IF normalize.kind # "object" THEN NormalizeThrow
  ELSE IF normalize.min_key.kind = "undef" \/ normalize.max_key.kind = "undef"
    THEN NormalizeThrow
  ELSE IF NotNonBlankKey(normalize.min_key) \/ NotNonBlankKey(normalize.max_key)
    THEN NormalizeThrow
  ELSE IF /\ normalize.strategy.kind # "undef"
          /\ \/ normalize.strategy.kind # "str"
             \/ normalize.strategy.name \notin NORMALIZATION_STRATEGIES
    THEN NormalizeThrow
  ELSE IF normalize.min_key.name \notin availableStatsKeys
          \/ normalize.max_key.name \notin availableStatsKeys
    THEN NormalizeThrow
  ELSE NormalizeIs([present |-> TRUE,
                    min_key |-> normalize.min_key.name,
                    max_key |-> normalize.max_key.name,
                    strategy |-> IF normalize.strategy.kind = "undef"
                                   THEN "per_band_per_time"
                                   ELSE normalize.strategy.name])

(***************************************************************************)
(* ZarrTileValidator.validateRenderType, validateNodataStrategy,           *)
(* validateNodataReplaceValue, validateMaskNodata.                         *)
(***************************************************************************)
RENDER_TYPES == {"raw", "display"}
NODATA_STRATEGIES == {"raw", "normalize", "normalize_clamp", "replace"}

NameIs(name) == [ok |-> TRUE, value |-> name, error |-> "none"]
NameThrow(field) == [ok |-> FALSE, value |-> "", error |-> field]

\* !s for a [kind, name] property: undefined and '' are falsy
KeyFalsy(k) == k.kind = "undef" \/ (k.kind = "str" /\ k.name = "")

ValidateRenderType(renderType) ==
  IF KeyFalsy(renderType) THEN NameIs("display")
  ELSE IF renderType.kind # "str" \/ renderType.name \notin RENDER_TYPES
    THEN NameThrow("render_type")
  ELSE NameIs(renderType.name)

ValidateNodataStrategy(nodataStrategy) ==
  IF KeyFalsy(nodataStrategy) THEN NameIs("raw")
  ELSE IF nodataStrategy.kind # "str" \/ nodataStrategy.name \notin NODATA_STRATEGIES
    THEN NameThrow("nodata_strategy")
  ELSE NameIs(nodataStrategy.name)

ValidateNodataReplaceValue(replaceValue) ==
  IF replaceValue.kind \in {"null", "undef"} THEN Ok(JsNum(0))
  ELSE IF replaceValue.kind # "num" THEN Throw("nodata_replace_value")
  ELSE Ok(replaceValue)

\* the mask_nodata option is [kind, b]: undefined, null, the boolean b, a string
MaskUndef == [kind |-> "undef", b |-> FALSE]
MaskBool(b) == [kind |-> "bool", b |-> b]
MaskString == [kind |-> "str", b |-> FALSE]

ValidateMaskNodata(maskNodata) ==
  IF maskNodata.kind \in {"null", "undef"} THEN [ok |-> TRUE, value |-> TRUE, error |-> "none"]
  ELSE IF maskNodata.kind # "bool"
    THEN [ok |-> FALSE, value |-> FALSE, error |-> "mask_nodata"]
  ELSE [ok |-> TRUE, value |-> maskNodata.b, error |-> "none"]

(***************************************************************************)
(* ZarrTileValidator.validateDisplayRenderConfig.  The drc option is       *)
(* [kind, strategy, mean_key, std_key, slope].                             *)
(***************************************************************************)
DRC_STRATEGIES == {"normalize", "std_stretch"}

DrcUndef == [kind |-> "undef", strategy |-> KeyUndef, mean_key |-> KeyUndef,
             std_key |-> KeyUndef, slope |-> JsUndef]
DrcObject(strategy, mean_key, std_key, slope) ==
  [kind |-> "object", strategy |-> strategy, mean_key |-> mean_key,
   std_key |-> std_key, slope |-> slope]

DrcIs(d) == [ok |-> TRUE, value |-> d, error |-> "none"]
DrcThrow == [ok |-> FALSE, value |-> NoDrc, error |-> "drc"]

ValidateDisplayRenderConfig(drc, availableStatsKeys) ==
  LET validated ==
        [present |-> TRUE,
         strategy |-> IF drc.strategy.kind = "undef" THEN "normalize"
                      ELSE drc.strategy.name,
         mean_key |-> IF drc.mean_key.kind = "undef" THEN "mean"
                      ELSE drc.mean_key.name,
         std_key |-> IF drc.std_key.kind = "undef" THEN "std" ELSE drc.std_key.name,
         slope |-> IF drc.slope.kind = "num" THEN drc.slope.vals[1] ELSE 2]
  IN IF drc.kind \in {"undef", "null"} THEN DrcIs(Drc("normalize"))
     ELSE IF drc.kind # "object" THEN DrcThrow
     ELSE IF /\ drc.strategy.kind # "undef"
             /\ (drc.strategy.kind # "str" \/ drc.strategy.name \notin DRC_STRATEGIES)
       THEN DrcThrow
     ELSE IF drc.mean_key.kind # "undef" /\ NotNonBlankKey(drc.mean_key) THEN DrcThrow
     ELSE IF drc.std_key.kind # "undef" /\ NotNonBlankKey(drc.std_key) THEN DrcThrow
     ELSE IF /\ drc.slope.kind # "undef"
             /\ (drc.slope.kind # "num" \/ drc.slope.vals[1] <= 0)
       THEN DrcThrow
     ELSE IF /\ validated.strategy = "std_stretch"
             /\ \/ validated.mean_key \notin availableStatsKeys
                \/ validated.std_key \notin availableStatsKeys
       THEN DrcThrow
     ELSE DrcIs(validated)

(***************************************************************************)
(* ZarrTileResolver.resolveAllProperties.  The steps run in the order of   *)
(* the source; the first that throws ends the resolution with its error.   *)
(* The result is [ok, error, config].                                      *)
(***************************************************************************)
NoConfig == [none |-> TRUE]

ResolveAllProperties(options, store, groupMetadata, valueArrayMetadata) ==
  LET extent == ResolveExtent(options, groupMetadata)
      zr == ResolveZoomAndResolutions(options, groupMetadata)
      ts == ResolveTimestamps(options, store, zr.zoomLevels, valueArrayMetadata)
      bd == ResolveBands(options, valueArrayMetadata)
      nd == ResolveNodata(options, groupMetadata, valueArrayMetadata, bd.bands)
      st == ResolveStatistics(options, store, bd.bands, ts.timestamps,
                              zr.zoomLevels, valueArrayMetadata)
      nz == ValidateNormalization(options.normalize, st.keys)
      rt == ValidateRenderType(options.render_type)
      ns == ValidateNodataStrategy(options.nodata_strategy)
      nr == ValidateNodataReplaceValue(options.nodata_replace_value)
      mn == ValidateMaskNodata(options.mask_nodata)
      dr == IF rt.ok /\ rt.value = "display"
              THEN ValidateDisplayRenderConfig(options.drc, st.keys)
              ELSE DrcIs(NoDrc)
      \* each step is reached only if the steps before it returned
      error ==
        IF ~extent.ok THEN extent.error
        ELSE IF ~zr.ok THEN zr.error
        ELSE IF ~ts.ok THEN ts.error
        ELSE IF ~bd.ok THEN "bands"
        ELSE IF ~nd.ok THEN nd.error
        ELSE IF ~st.ok THEN st.error
        ELSE IF ~nz.ok THEN nz.error
        ELSE IF ~rt.ok THEN rt.error
        ELSE IF ~ns.ok THEN ns.error
        ELSE IF ~nr.ok THEN nr.error
        ELSE IF ~mn.ok THEN mn.error
        ELSE IF ~dr.ok THEN dr.error
        ELSE "none"
  IN IF error # "none"
       THEN [ok |-> FALSE, error |-> error, config |-> NoConfig]
       ELSE [ok |-> TRUE, error |-> "none",
             config |->
               [crs |-> ResolveCrs(options, groupMetadata),
                extent |-> extent.value.vals,
                zoomLevels |-> zr.zoomLevels,
                resolutions |-> zr.resolutions,
                timestamps |-> ts.timestamps,
                timestampType |-> ts.type,
                bands |-> bd.bands,
                nodata |-> nd.value,
                nodataFormat |-> nd.format,
                statistics |-> st.statistics,
                statisticsFormat |-> st.format,
                statisticsKeyIndices |-> st.keyIndices,
                availableStatsKeys |-> st.keys,
                normalize |-> nz.value,
                dtype |-> valueArrayMetadata.dtype,
                valueArrayShape |-> valueArrayMetadata.shape,
                renderType |-> rt.value,
                nodataStrategy |-> ns.value,
                nodataReplaceValue |-> nr.value.vals[1],
                maskNodata |-> mn.value,
                drc |-> dr.value,
                globalStatistics |->
                  CalculateGlobalStatistics(st.statistics, st.format, nz.value,
                                            bd.bands, ts.timestamps)]]

(***************************************************************************)
(* Inputs of ZarrTile.create: options objects and stores.                  *)
(***************************************************************************)
\* only url and path: every other property must come from the dataset
BaseOptions ==
  [url |-> JsStr(1), path |-> JsStr(2), crs |-> JsUndef, extent |-> JsUndef,
   zoomLevels |-> JsUndef, resolutions |-> JsUndef, timestamps |-> TsUndef,
   bands |-> NoBandsOption, nodata |-> JsUndef, statistics |-> StatsUndef,
   statistics_key_indices |-> KeyIndicesUndef, normalize |-> NormalizeUndef,
   render_type |-> KeyUndef, nodata_strategy |-> KeyUndef,
   nodata_replace_value |-> JsUndef, mask_nodata |-> MaskUndef, drc |-> DrcUndef]

\* the user gives crs, extent, zoom levels and resolutions
FullOptions ==
  [BaseOptions EXCEPT !.crs = JsStr(2), !.extent = JsArr(<<0, 0, 10, 10>>),
                      !.zoomLevels = JsArr(<<0, 1>>),
                      !.resolutions = JsArr(<<8, 4>>)]

GlobalEntry == [min |-> Sc(0), max |-> Sc(200), mean |-> Sc(90), std |-> Sc(30)]
MinMaxEntry == [min |-> Sc(1), max |-> Sc(9), mean |-> Absent, std |-> Absent]
PerTimeEntry == [min |-> Ar(<<1, 2>>), max |-> Ar(<<8, 9>>),
                 mean |-> Absent, std |-> Absent]

\* the options that differ from o in one property
Variants(o) ==
  {o}
  \cup {[o EXCEPT !.url = v] : v \in {JsUndef, JsEmptyStr, JsStr(0), JsNum(7)}}
  \cup {[o EXCEPT !.path = v] : v \in {JsUndef, JsStr(0), JsNull}}
  \cup {[o EXCEPT !.crs = v] : v \in {JsUndef, JsStr(2), JsEmptyStr}}
  \cup {[o EXCEPT !.extent = v] :
          v \in {JsUndef, JsArr(<<1, 1, 5, 5>>), JsObj(<<1, 1, 5, 5>>),
                 JsArr(<<5, 1, 5, 9>>), JsArr(<<1, 2, 3>>), JsStr(4)}}
  \cup {[o EXCEPT !.zoomLevels = v] :
          v \in {JsUndef, JsArr(<<0, 1>>), JsArr(<<1, 0>>), JsArr(<<0, 1, 2>>),
                 JsArr(<<>>), JsNum(2)}}
  \cup {[o EXCEPT !.resolutions = v] :
          v \in {JsUndef, JsArr(<<8, 4>>), JsArr(<<4, 8>>), JsArr(<<8, 0>>),
                 JsArr(<<4, 4>>)}}
  \cup {[o EXCEPT !.timestamps = v] :
          v \in {TsCount(3), TsCount(0), TsCount(-1), TsFrac, TsString,
                 TsArray(<<>>), TsArray(<<IntTs(5), IntTs(5)>>),
                 TsArray(<<IntTs(1), IntTs(-2)>>),
                 TsArray(<<IntTs(1), StrTs(1)>>),
                 TsArray(<<DateTs(100, 1), DateTs(200, 2)>>),
                 TsArray(<<DateTs(100, 1), DateTs(100, 2)>>),
                 TsArray(<<DateTs(100, 1), BadDateTs(2)>>),
                 TsArray(<<IsoTs(100), IsoTs(200)>>),
                 TsArray(<<IsoTs(100), IsoTs(100)>>),
                 TsArray(<<StrTs(1), StrTs(2)>>),
                 TsArray(<<StrTs(1), StrTs(1)>>),
                 TsArray(<<IsoTs(100), BlankTs>>),
                 TsArray(<<StrTs(1), BlankTs>>),
                 TsArray(<<NoTs>>), TsArray(<<FracTs>>)}}
  \cup {[o EXCEPT !.bands = BandsOption(v)] : v \in BandInputs}
  \cup {[o EXCEPT !.nodata = v] :
          v \in {JsNull, JsNum(0), JsNum(9), JsNaN, JsStr(1), JsArr(<<>>),
                 JsArr(<<9>>), JsArr(<<7, 8, 9>>), JsArr(<<7, 8>>)}}
  \cup {[o EXCEPT !.statistics = v] :
          v \in {StatsObject(GlobalEntry), StatsObject(PerTimeEntry),
                 StatsObject([GlobalEntry EXCEPT !["max"] = Absent]),
                 StatsArray(<<MinMaxEntry>>), StatsArray(<<MinMaxEntry, GlobalEntry>>),
                 StatsArray(<<PerTimeEntry>>),
                 StatsArray(<<PerTimeEntry, [PerTimeEntry EXCEPT !["min"] = Sc(1)]>>),
                 StatsArray(<<>>), StatsNumber}}
  \cup {[o EXCEPT !.statistics_key_indices = v] :
          v \in {KeyIndices([min |-> 1, max |-> 0, mean |-> 3, std |-> NoIndex]),
                 KeyIndices([min |-> 0, max |-> 0, mean |-> 2, std |-> 3]),
                 KeyIndices([min |-> 0, max |-> NoIndex, mean |-> 2, std |-> 3]),
                 KeyIndices([min |-> 0, max |-> 1, mean |-> -1, std |-> 3]),
                 KeyIndicesString}}
  \cup {[o EXCEPT !.normalize = v] :
          v \in {NormalizeObject(KeyStr("min"), KeyStr("max"), KeyUndef),
                 NormalizeObject(KeyStr("min"), KeyStr("max"), KeyStr("global")),
                 NormalizeObject(KeyStr("min"), KeyStr("max"), KeyStr("linear")),
                 NormalizeObject(KeyStr("mean"), KeyStr("std"), KeyUndef),
                 NormalizeObject(KeyStr("min"), KeyUndef, KeyUndef),
                 NormalizeObject(KeyStr(" "), KeyStr("max"), KeyUndef),
                 NormalizeObject(KeyStr("min"), KeyNum, KeyUndef),
                 [NormalizeUndef EXCEPT !.kind = "null"],
                 [NormalizeUndef EXCEPT !.kind = "str"]}}
  \cup {[o EXCEPT !.render_type = v] :
          v \in {KeyStr("raw"), KeyStr("display"), KeyStr(""), KeyStr("rgb"), KeyNum}}
  \cup {[o EXCEPT !.nodata_strategy = v] :
          v \in {KeyStr("replace"), KeyStr("skip"), KeyNum}}
  \cup {[o EXCEPT !.nodata_replace_value = v] :
          v \in {JsNull, JsNum(3), JsNaN, JsStr(1)}}
  \cup {[o EXCEPT !.mask_nodata = v] :
          v \in {MaskBool(FALSE), MaskBool(TRUE), MaskString}}
  \cup {[o EXCEPT !.drc = v] :
          v \in {DrcObject(KeyUndef, KeyUndef, KeyUndef, JsUndef),
                 DrcObject(KeyStr("std_stretch"), KeyUndef, KeyUndef, JsNum(3)),
                 DrcObject(KeyStr("std_stretch"), KeyStr("min"), KeyStr("max"), JsUndef),
                 DrcObject(KeyStr("gamma"), KeyUndef, KeyUndef, JsUndef),
                 DrcObject(KeyUndef, KeyStr(" "), KeyUndef, JsUndef),
                 DrcObject(KeyUndef, KeyUndef, KeyNum, JsUndef),
                 DrcObject(KeyUndef, KeyUndef, KeyUndef, JsNum(0)),
                 DrcObject(KeyUndef, KeyUndef, KeyUndef, JsStr(1)),
                 [DrcUndef EXCEPT !.kind = "str"]}}

\* an invalid drc under the raw render type, where it is not looked at
RawWithDrc(o) ==
  [o EXCEPT !.render_type = KeyStr("raw"),
            !.drc = DrcObject(KeyStr("gamma"), KeyUndef, KeyUndef, JsUndef)]

\* a composition of three bands with statistics of three entries or of one
CompositionStatistics(o) ==
  {[o EXCEPT !.bands = BandsOption(BandList(<<Num(0), Num(1), Num(2)>>)),
             !.statistics = v] :
     v \in {StatsArray(<<MinMaxEntry, MinMaxEntry, MinMaxEntry>>),
            StatsArray(<<PerTimeEntry, PerTimeEntry, PerTimeEntry>>),
            StatsArray(<<MinMaxEntry>>)}}

OptionInputs ==
  Variants(BaseOptions) \cup Variants(FullOptions)
    \cup {RawWithDrc(BaseOptions), RawWithDrc(FullOptions)}
    \cup CompositionStatistics(BaseOptions) \cup CompositionStatistics(FullOptions)

\* attribute documents: the usual keys, the alternative zoom key, a bad extent
DocUsual ==
  GroupDoc(JsStr(3), JsArr(<<0, 0, 20, 20>>), JsArr(<<0, 2>>), JsUndef,
           JsArr(<<16, 4>>), JsNum(5))
DocAlternative ==
  GroupDoc(JsUndef, JsObj(<<0, 0, 20, 20>>), JsUndef, JsArr(<<1, 3>>),
           JsArr(<<16, 4>>), JsUndef)
DocBadExtent == [DocUsual EXCEPT !.extent = JsArr(<<9, 0, 9, 20>>)]

GroupInputs ==
  {GroupFetched(DocUsual), GroupFetched(DocAlternative), GroupFetched(DocBadExtent),
   GroupFetched(EmptyDoc), GroupFetchFails}

\* the same array under every zoom directory
AtEveryZoom(arr) == [z \in 1..3 |-> arr]

\* value arrays: one per zoom directory, each with its own shape and dtype,
\* so that the array that was opened shows in the metadata
ValueArrays ==
  (1 :> ValueArr(<<2, 3, 8, 8>>, "|u1", JsNum(7)))
    @@ (2 :> ValueArr(<<3, 3, 16, 16>>, "<i2", JsNull))
    @@ (3 :> ValueArr(<<1, 2, 32, 32>>, "<u2", JsNum(255)))

\* a float-like dataset whose fill value is NaN
ValueArraysNaNFill == AtEveryZoom(ValueArr(<<2, 3, 8, 8>>, "|u1", JsNaN))

TwoTimes == TimeArr(<<Seconds(10), IsoString(20500)>>)
OneTime == TimeArr(<<Seconds(30)>>)

TimeInputsAt ==
  {(RootLoc :> TwoTimes) @@ AtEveryZoom(OneTime),
   AtEveryZoom(OneTime),
   (RootLoc :> TimeArr(<<Seconds(10), [type |-> "badstring", v |-> 0]>>))
      @@ AtEveryZoom(OneTime),
   (RootLoc :> TimeArr(<<>>)) @@ AtEveryZoom(OneTime),
   (RootLoc :> TimeNotArray),
   <<>>}

StatsInputsAt ==
  {(RootLoc :> StatsArr(<<2, 3, 7>>)) @@ AtEveryZoom(StatsArr(<<1, 2, 7>>)),
   AtEveryZoom(StatsArr(<<1, 2, 7>>)),
   (RootLoc :> StatsArr(<<2, 3>>)),
   <<>>}

UsualTimes == (RootLoc :> TwoTimes) @@ AtEveryZoom(OneTime)
UsualStats == (RootLoc :> StatsArr(<<2, 3, 7>>)) @@ AtEveryZoom(StatsArr(<<1, 2, 7>>))

\* one of the arrays varies at a time
StoreInputs ==
  {[group |-> g, valueAt |-> ValueArrays, timeAt |-> t, statsAt |-> UsualStats] :
     g \in GroupInputs, t \in TimeInputsAt}
  \cup {[group |-> g, valueAt |-> ValueArrays, timeAt |-> UsualTimes, statsAt |-> s] :
          g \in GroupInputs, s \in StatsInputsAt}
  \cup {[group |-> g, valueAt |-> v, timeAt |-> UsualTimes, statsAt |-> UsualStats] :
          g \in GroupInputs, v \in {ValueArraysNaNFill, <<>>}}

(***************************************************************************)
(* The phases of ZarrTile.create, and a direct call of the constructor.    *)
(* creation is [pc, options, store, groupMetadata, valueArrayMetadata,     *)
(* resolved, error, instances]: pc is the phase the call is at ("rejected" *)
(* and "created" are final), error names what made the promise reject and  *)
(* instances counts the ZarrTile objects that exist.                       *)
(***************************************************************************)
NoMetadata == [ok |-> FALSE, error |-> "none", loc |-> RootLoc, shape |-> <<>>,
               dtype |-> "", fill_value |-> JsUndef]

\* the module-private Symbol, and what code outside the module can pass
CONSTRUCTOR_TOKEN == "CONSTRUCTOR_TOKEN"
OutsideTokens == {"undefined", "Symbol('ZarrTile.constructor.token')"}

\* the token test at the top of the constructor
ConstructorThrows(token) == token # CONSTRUCTOR_TOKEN

CreateStep(op, threw) == Call(op, NoArg, NoBandsArg, NoTs, threw, "none", 0)

Reject(error) == [creation EXCEPT !.pc = "rejected", !.error = error]

InstanceUnchanged ==
  UNCHANGED <<config_, timestamps_, currentTimeIndex_, bands_, resolvedCache_,
              values_>>

OutsideCreationUnchanged == UNCHANGED <<workerPool_, workers, requests, tasks>>

\* Phase 1: validateRequired, outside the try block
CreateValidateRequired ==
  /\ creation.pc = "called"
  /\ creation' = IF ValidateRequired(creation.options).ok
                   THEN [creation EXCEPT !.pc = "extractGroup"]
                   ELSE Reject("required")
  /\ last' = CreateStep("create.validateRequired",
                        ~ValidateRequired(creation.options).ok)
  /\ InstanceUnchanged /\ OutsideCreationUnchanged

\* Phase 2, first await: the attribute document
CreateExtractGroup ==
  /\ creation.pc = "extractGroup"
  /\ LET r == ExtractGroupMetadata(creation.store)
     IN /\ creation' = IF r.ok
                         THEN [creation EXCEPT !.pc = "extractValue",
                                               !.groupMetadata = r.value]
                         ELSE Reject(r.error)
        /\ last' = CreateStep("create.extractGroupMetadata", ~r.ok)
  /\ InstanceUnchanged /\ OutsideCreationUnchanged

\* Phase 2, second await: the value array at the highest zoom of
\* options.zoomLevels || groupMetadata.zoom_levels || groupMetadata.zoomLevels
CreateExtractValue ==
  /\ creation.pc = "extractValue"
  /\ LET zoomLevels == OrElse2(creation.options.zoomLevels,
                         OrElse2(creation.groupMetadata.zoom_levels,
                                 creation.groupMetadata.zoomLevels))
         r == ExtractValueArrayMetadata(creation.store, zoomLevels)
     IN /\ creation' = IF r.ok
                         THEN [creation EXCEPT !.pc = "resolve",
                                               !.valueArrayMetadata = r]
                         ELSE Reject(r.error)
        /\ last' = CreateStep("create.extractValueArrayMetadata", ~r.ok)
  /\ InstanceUnchanged /\ OutsideCreationUnchanged

\* Phase 3: resolveAllProperties
CreateResolve ==
  /\ creation.pc = "resolve"
  /\ LET r == ResolveAllProperties(creation.options, creation.store,
                 creation.groupMetadata, creation.valueArrayMetadata)
     IN /\ creation' = IF r.ok
                         THEN [creation EXCEPT !.pc = "construct",
                                               !.resolved = r.config]
                         ELSE Reject(r.error)
        /\ last' = CreateStep("create.resolveAllProperties", ~r.ok)
  /\ InstanceUnchanged /\ OutsideCreationUnchanged

\* Phase 4: new ZarrTile(CONSTRUCTOR_TOKEN, resolvedConfig)
CreateConstruct ==
  /\ creation.pc = "construct"
  /\ IF ConstructorThrows(CONSTRUCTOR_TOKEN)
       THEN /\ creation' = Reject("constructor")
            /\ InstanceUnchanged
       ELSE /\ creation' = [creation EXCEPT !.pc = "created",
                                            !.instances = @ + 1]
            /\ config_' = creation.resolved
            /\ timestamps_' = creation.resolved.timestamps
            /\ currentTimeIndex_' = 0
            /\ bands_' = creation.resolved.bands
            /\ resolvedCache_' = InitialCache
            /\ values_' = [time |-> creation.resolved.timestamps[1],
                           bands |-> creation.resolved.bands]
  /\ last' = CreateStep("create.construct", FALSE)
  /\ OutsideCreationUnchanged

\* new ZarrTile(token, config) from code outside the module: the token test
\* of the constructor throws before anything is built
DirectConstruct(token) ==
  /\ IF ConstructorThrows(token)
       THEN /\ last' = [CreateStep("new ZarrTile", TRUE) EXCEPT !.ret = token]
            /\ UNCHANGED creation
       ELSE /\ last' = [CreateStep("new ZarrTile", FALSE) EXCEPT !.ret = token]
            /\ creation' = [creation EXCEPT !.instances = @ + 1]
  /\ InstanceUnchanged /\ OutsideCreationUnchanged

NoInstance == [none |-> TRUE]

InitCreate ==
  /\ creation \in
       {[pc |-> "called", options |-> o, store |-> s, groupMetadata |-> EmptyDoc,
         valueArrayMetadata |-> NoMetadata, resolved |-> NoConfig,
         error |-> "none", instances |-> 0] :
          o \in OptionInputs, s \in StoreInputs}
  /\ config_ = NoInstance
  /\ timestamps_ = <<>>
  /\ currentTimeIndex_ = 0
  /\ bands_ = <<>>
  /\ resolvedCache_ = InitialCache
  /\ values_ = [time |-> NoTs, bands |-> <<>>]
  /\ workerPool_ = <<>>
  /\ workers = <<>>
  /\ requests = <<>>
  /\ tasks = <<>>
  /\ last = CreateStep("create", FALSE)

NextCreate ==
  \/ CreateValidateRequired
  \/ CreateExtractGroup
  \/ CreateExtractValue
  \/ CreateResolve
  \/ CreateConstruct
  \/ \E token \in OutsideTokens : DirectConstruct(token)

SpecCreate == InitCreate /\ [][NextCreate]_vars

(***************************************************************************)
(* The pixel processor (src/src/zarr.worker.js).                           *)
(*                                                                         *)
(* A pixel value, a no-data sentinel or a range endpoint is [k, n, d]:     *)
(*   "num"   the rational number n/d in lowest terms, d > 0                *)
(*   "nan"   NaN     "inf" +Infinity     "ninf" -Infinity                  *)
(*   "null"  null or undefined (a sentinel or a range that is not set)     *)
(* The inputs below keep every quotient dyadic, so a value the model       *)
(* writes into a Float32Array is the value the array holds.                *)
(***************************************************************************)
PxAbs(a) == IF a < 0 THEN -a ELSE a

RECURSIVE Euclid(_, _)
Euclid(m, n) == IF n = 0 THEN m ELSE Euclid(n, m % n)

Gcd(a, b) == Euclid(PxAbs(a), PxAbs(b))

PxNaN == [k |-> "nan", n |-> 0, d |-> 1]
PxInf == [k |-> "inf", n |-> 0, d |-> 1]
PxNegInf == [k |-> "ninf", n |-> 0, d |-> 1]
PxNull == [k |-> "null", n |-> 0, d |-> 1]

\* the number n/d; a zero divisor gives what JavaScript's division gives
Rat(n, d) ==
  IF d = 0
    THEN (IF n = 0 THEN PxNaN ELSE IF n > 0 THEN PxInf ELSE PxNegInf)
    ELSE LET g == Gcd(n, d)
             s == IF d < 0 THEN -1 ELSE 1
         IN [k |-> "num", n |-> (s * n) \div g, d |-> (s * d) \div g]

Px(n) == Rat(n, 1)
PxHalf == Rat(1, 2)

PxIsNaN(a) == a.k = "nan"
PxFinite(a) == a.k = "num"

\* a - b, a + b, a * b and a / b on numbers (IEEE rules for NaN and the
\* infinities; null converts to 0 as ToNumber(null) does)
PxNumber(a) == IF a.k = "null" THEN Px(0) ELSE a

PxNeg(a) ==
  CASE a.k = "num" -> Rat(-a.n, a.d)
    [] a.k = "inf" -> PxNegInf
    [] a.k = "ninf" -> PxInf
    [] OTHER -> PxNaN

PxSign(a) ==
  CASE a.k = "num" -> (IF a.n > 0 THEN 1 ELSE IF a.n < 0 THEN -1 ELSE 0)
    [] a.k = "inf" -> 1
    [] a.k = "ninf" -> -1
    [] OTHER -> 0

PxAdd(a0, b0) ==
  LET a == PxNumber(a0)
      b == PxNumber(b0)
  IN IF PxIsNaN(a) \/ PxIsNaN(b) THEN PxNaN
     ELSE IF PxFinite(a) /\ PxFinite(b) THEN Rat(a.n * b.d + b.n * a.d, a.d * b.d)
     ELSE IF PxFinite(a) THEN b
     ELSE IF PxFinite(b) THEN a
     ELSE IF a.k = b.k THEN a ELSE PxNaN

PxSub(a, b) == PxAdd(a, PxNeg(PxNumber(b)))

PxMul(a0, b0) ==
  LET a == PxNumber(a0)
      b == PxNumber(b0)
  IN IF PxIsNaN(a) \/ PxIsNaN(b) THEN PxNaN
     ELSE IF PxFinite(a) /\ PxFinite(b) THEN Rat(a.n * b.n, a.d * b.d)
     ELSE IF PxSign(a) * PxSign(b) = 0 THEN PxNaN
     ELSE IF PxSign(a) * PxSign(b) > 0 THEN PxInf ELSE PxNegInf

PxDiv(a0, b0) ==
  LET a == PxNumber(a0)
      b == PxNumber(b0)
  IN IF PxIsNaN(a) \/ PxIsNaN(b) THEN PxNaN
     ELSE IF PxFinite(a) /\ PxFinite(b) THEN Rat(a.n * b.d, a.d * b.n)
     ELSE IF PxFinite(b)
       THEN (IF PxSign(a) * (IF PxSign(b) < 0 THEN -1 ELSE 1) > 0
               THEN PxInf ELSE PxNegInf)
     ELSE IF PxFinite(a) THEN Px(0)
     ELSE PxNaN

\* a < b on numbers (false when either is NaN)
PxLess(a, b) ==
  /\ ~PxIsNaN(a) /\ ~PxIsNaN(b)
  /\ \/ a.k = "ninf" /\ b.k # "ninf"
     \/ b.k = "inf" /\ a.k # "inf"
     \/ PxFinite(a) /\ PxFinite(b) /\ a.n * b.d < b.n * a.d

\* Math.max(0, Math.min(1, v))
Clamp01(v0) ==
  LET v == PxNumber(v0)
  IN IF PxIsNaN(v) THEN PxNaN
     ELSE IF PxLess(v, Px(0)) THEN Px(0)
     ELSE IF PxLess(Px(1), v) THEN Px(1)
     ELSE v

\* a === b on numbers and null
PxStrictEq(a, b) == ~PxIsNaN(a) /\ ~PxIsNaN(b) /\ a = b

\* the element a typed array holds after `array[i] = v`:
\*   Uint8ClampedArray: NaN is 0, the value is clamped to 0..255 and rounded
\*                      to the nearest integer, ties to even
\*   Float32Array: the value itself (see the note on dyadic values above)
ToUint8Clamp(v0) ==
  LET v == PxNumber(v0)
  IN IF PxIsNaN(v) THEN Px(0)
     ELSE IF PxLess(v, Px(0)) THEN Px(0)
     ELSE IF PxLess(Px(255), v) THEN Px(255)
     ELSE LET fl == v.n \div v.d
              twice == 2 * (v.n - fl * v.d)
          IN IF twice < v.d THEN Px(fl)
             ELSE IF twice > v.d THEN Px(fl + 1)
             ELSE IF fl % 2 = 0 THEN Px(fl) ELSE Px(fl + 1)

StoreAs(arrayType, v) ==
  IF arrayType = "Uint8ClampedArray" THEN ToUint8Clamp(v) ELSE PxNumber(v)

(***************************************************************************)
(* calculateArrayIndices.  arrayShape is the shape of the opened array; a  *)
(* dimension the shape does not have destructures to undefined, and the    *)
(* padding computed from it is NaN: the bounds of that axis are then NaN   *)
(* (nan = TRUE, the numbers are placeholders).  A range is [lo, hi), hi    *)
(* exclusive, as passed to slice().                                        *)
(***************************************************************************)
AxisRange(t, maxT, hasDim, dim, tileSize) ==
  LET start == t * tileSize
      end == ((t + 1) * tileSize) - 1
      padding == IF t = maxT THEN tileSize - (dim % tileSize) ELSE 0
      finalEnd == IF t = maxT THEN end - padding ELSE end
  IN IF t = maxT /\ ~hasDim
       THEN [nan |-> TRUE, lo |-> start, hi |-> start, size |-> 0]
       ELSE [nan |-> FALSE, lo |-> start, hi |-> finalEnd + 1,
             size |-> finalEnd - start + 1]

CalculateArrayIndices(x, y, arrayShape, tileSize, tileRange) ==
  LET hasH == Len(arrayShape) >= 3
      hasW == Len(arrayShape) >= 4
      arrayHeight == IF hasH THEN arrayShape[3] ELSE 1
      arrayWidth == IF hasW THEN arrayShape[4] ELSE 1
  IN [x |-> AxisRange(x, tileRange.maxX, hasW, arrayWidth, tileSize),
      y |-> AxisRange(y, tileRange.maxY, hasH, arrayHeight, tileSize)]

(***************************************************************************)
(* isNodata                                                                *)
(***************************************************************************)
\* isNodata comparing with === only
IsNodataStrictOnly(value, nodataValue) ==
  IF nodataValue.k = "null" THEN FALSE ELSE PxStrictEq(value, nodataValue)

IsNodata(value, nodataValue) ==
  IF nodataValue.k = "null" THEN FALSE
  ELSE IF PxIsNaN(value) THEN PxIsNaN(nodataValue)
  ELSE PxStrictEq(value, nodataValue)

(***************************************************************************)
(* A normalization range or a set of stretch parameters that may be null.  *)
(***************************************************************************)
PxRange(lo, hi) == [set |-> TRUE, min |-> Px(lo), max |-> Px(hi)]
PxNoRange == [set |-> FALSE, min |-> PxNull, max |-> PxNull]

\* (value - min) / (max - min)
NormalizeValue(value, range) ==
  PxDiv(PxSub(value, range.min), PxSub(range.max, range.min))

(***************************************************************************)
(* applyNodataStrategy: {value, isNodata}                                  *)
(***************************************************************************)
ApplyNodataStrategy(value, nodataValue, strategy, replaceValue, normalizationRange) ==
  IF ~IsNodata(value, nodataValue) THEN [value |-> value, isNodata |-> FALSE]
  ELSE CASE strategy = "raw" -> [value |-> value, isNodata |-> TRUE]
         [] strategy = "normalize" ->
              IF normalizationRange.set
                THEN [value |-> NormalizeValue(value, normalizationRange),
                      isNodata |-> TRUE]
                ELSE [value |-> Px(0), isNodata |-> TRUE]
         [] strategy = "normalize_clamp" ->
              IF normalizationRange.set
                THEN [value |-> Clamp01(NormalizeValue(value, normalizationRange)),
                      isNodata |-> TRUE]
                ELSE [value |-> Px(0), isNodata |-> TRUE]
         [] strategy = "replace" -> [value |-> replaceValue, isNodata |-> TRUE]
         [] OTHER -> [value |-> value, isNodata |-> TRUE]

(***************************************************************************)
(* applyDisplayStrategy for 'std_stretch': params = {mean, std, slope}     *)
(***************************************************************************)
ApplyDisplayStrategy(value, params) ==
  LET stretched == PxDiv(PxSub(value, params.mean), PxMul(params.slope, params.std))
      normalized == PxAdd(PxMul(stretched, PxHalf), PxHalf)
  IN Clamp01(normalized)

(***************************************************************************)
(* determineOutputFormat                                                   *)
(***************************************************************************)
\* determineOutputFormat reserving no channel for alpha
DetermineOutputFormatNoAlphaChannel(renderType, maskNodata, bandCount) ==
  [ArrayType |-> IF renderType = "display" THEN "Uint8ClampedArray"
                                            ELSE "Float32Array",
   channelCount |-> bandCount,
   hasAlpha |-> maskNodata]

DetermineOutputFormat(renderType, maskNodata, bandCount) ==
  [ArrayType |-> IF renderType = "display" THEN "Uint8ClampedArray"
                                            ELSE "Float32Array",
   channelCount |-> IF maskNodata THEN bandCount + 1 ELSE bandCount,
   hasAlpha |-> maskNodata]

(***************************************************************************)
(* SpecTile: self.onmessage with the pixel data.  The task is              *)
(*   msg      the request message (e.data)                                 *)
(*   shape    the shape of the array openArray finds at storePath          *)
(*   pc       "opening" | "reading" | "done"                               *)
(*   indices, format   what the handler computed after openArray           *)
(*   tileData, alphaMask   the two typed arrays (alphaMask <<>> if null)   *)
(*   reads    per band slot: "idle" | "pending" | "ok" | "failed"          *)
(*   isNodataPixel   per band slot: the loop's flag of each visited pixel  *)
(*   issued   the selections handed to valueArray.get so far               *)
(*   posted   the responses posted so far                                  *)
(***************************************************************************)
TileSize == 2

\* message.nodata: null, a number, or an array with one entry per band slot
NodataNull == [kind |-> "null", vals |-> <<>>]
NodataScalar(v) == [kind |-> "scalar", vals |-> <<v>>]
NodataArray(s) == [kind |-> "array", vals |-> s]

\* message.normalization: null or an array of ranges (an entry may be null)
NormalizationNull == [set |-> FALSE, ranges |-> <<>>]
NormalizationArray(s) == [set |-> TRUE, ranges |-> s]

\* message.displayRenderParams: null, {strategy: 'normalize',
\* useNormalization: true} or {strategy: 'std_stretch', stretchParams}
StretchOf(mean, std, slope) == [mean |-> Px(mean), std |-> Px(std), slope |-> Px(slope)]
ParamsNull == [strategy |-> "null", stretchParams |-> <<>>]
ParamsNormalize == [strategy |-> "normalize", stretchParams |-> <<>>]
ParamsStdStretch(s) == [strategy |-> "std_stretch", stretchParams |-> s]

\* the value array of the store: data[0][b][r][c] for band b, row r, column c
StoreValue(b, r, c) ==
  LET i == (b + r + 2 * c) % 6
  IN CASE i = 0 -> Px(7)
       [] i = 1 -> PxNaN
       [] i = 2 -> Px(5)
       [] i = 3 -> Px(9)
       [] i = 4 -> Px(300)
       [] i = 5 -> Px(-3)

\* Array.isArray(nodata) ? nodata[bandArrayIndex] : nodata
BandNodata(msg, bandArrayIndex) ==
  CASE msg.nodata.kind = "null" -> PxNull
    [] msg.nodata.kind = "scalar" -> msg.nodata.vals[1]
    [] msg.nodata.kind = "array" ->
         IF bandArrayIndex < Len(msg.nodata.vals)
           THEN At0(msg.nodata.vals, bandArrayIndex) ELSE PxNull

\* normalization && normalization[bandArrayIndex] ? ... : null
NormRange(msg, bandArrayIndex) ==
  IF msg.normalization.set /\ bandArrayIndex < Len(msg.normalization.ranges)
    THEN At0(msg.normalization.ranges, bandArrayIndex) ELSE PxNoRange

\* displayRenderParams?.stretchParams ? stretchParams[bandArrayIndex]
\*                                    : displayRenderParams
DisplayParams(msg, bandArrayIndex) ==
  At0(msg.displayRenderParams.stretchParams, bandArrayIndex)

\* the pixel loop body applying the value transform to no-data pixels too
ProcessPixelTransformNodata(msg, bandArrayIndex, raw) ==
  LET normRange == NormRange(msg, bandArrayIndex)
      nodataResult == ApplyNodataStrategy(raw, BandNodata(msg, bandArrayIndex),
                         msg.nodataStrategy, msg.nodataReplaceValue, normRange)
      v == nodataResult.value
      drp == msg.displayRenderParams
      out ==
        IF msg.renderType = "display"
          THEN IF drp.strategy = "std_stretch"
                 THEN ApplyDisplayStrategy(v, DisplayParams(msg, bandArrayIndex))
               ELSE IF drp.strategy = "normalize" /\ normRange.set
                 THEN Clamp01(NormalizeValue(v, normRange))
               ELSE v
          ELSE IF normRange.set THEN NormalizeValue(v, normRange) ELSE v
  IN [value |-> out, isNodata |-> nodataResult.isNodata]

\* the body of the pixel loop for one pixel: the value to write and whether
\* the pixel is no-data
ProcessPixel(msg, bandArrayIndex, raw) ==
  LET normRange == NormRange(msg, bandArrayIndex)
      nodataResult == ApplyNodataStrategy(raw, BandNodata(msg, bandArrayIndex),
                         msg.nodataStrategy, msg.nodataReplaceValue, normRange)
      v == nodataResult.value
      drp == msg.displayRenderParams
      out ==
        IF msg.renderType = "display"
          THEN IF drp.strategy # "null" /\ ~nodataResult.isNodata
                 THEN IF drp.strategy = "std_stretch"
                        THEN ApplyDisplayStrategy(v, DisplayParams(msg, bandArrayIndex))
                      ELSE IF drp.strategy = "normalize" /\ normRange.set
                        THEN Clamp01(NormalizeValue(v, normRange))
                      ELSE v
                 ELSE v
          ELSE IF normRange.set /\ ~nodataResult.isNodata
                 THEN NormalizeValue(v, normRange)
                 ELSE v
  IN [value |-> out, isNodata |-> nodataResult.isNodata]

\* the pixel (y, x) of the tile that element i of tileData belongs to
PixelRow(i, task) == (i \div task.format.channelCount) \div task.msg.tileSize
PixelCol(i, task) == (i \div task.format.channelCount) % task.msg.tileSize
PixelSlot(i, task) == i % task.format.channelCount

\* the pixels the loops visit: y < dataSize.height, x < dataSize.width
Covered(task, y, x) == y < task.indices.y.size /\ x < task.indices.x.size

\* data.data[y][x] of the selection read for the band in slot bandArrayIndex
RawAt(task, bandArrayIndex, y, x) ==
  StoreValue(At0(task.msg.bands, bandArrayIndex),
             task.indices.y.lo + y, task.indices.x.lo + x)

OpaqueValue(msg) == IF msg.renderType = "display" THEN Px(255) ELSE Px(1)

\* what the pixel loop of band slot bandArrayIndex leaves in tileData
BandTileData(task, bandArrayIndex) ==
  [j \in DOMAIN task.tileData |->
     LET i == j - 1
         y == PixelRow(i, task)
         x == PixelCol(i, task)
     IN IF Covered(task, y, x) /\ PixelSlot(i, task) = bandArrayIndex
          THEN StoreAs(task.format.ArrayType,
                       ProcessPixel(task.msg, bandArrayIndex,
                                    RawAt(task, bandArrayIndex, y, x)).value)
          ELSE task.tileData[j]]

\* the alpha mask entries of the pixels of band slot bandArrayIndex
BandAlphaMask(task, bandArrayIndex) ==
  [j \in DOMAIN task.alphaMask |->
     LET y == (j - 1) \div task.indices.x.size
         x == (j - 1) % task.indices.x.size
     IN IF ProcessPixel(task.msg, bandArrayIndex,
                        RawAt(task, bandArrayIndex, y, x)).isNodata
           /\ task.msg.maskNodata
          THEN Px(0) ELSE OpaqueValue(task.msg)]

\* isNodataPixel of every pixel the loop of band slot bandArrayIndex visits
BandFlags(task, bandArrayIndex) ==
  [j \in 1..(task.indices.x.size * task.indices.y.size) |->
     LET y == (j - 1) \div task.indices.x.size
         x == (j - 1) % task.indices.x.size
     IN ProcessPixel(task.msg, bandArrayIndex,
                     RawAt(task, bandArrayIndex, y, x)).isNodata]

\* the pixel loop writing the alpha mask for every band slot
ProcessBandAlphaEveryBand(task, bandArrayIndex) ==
  [task EXCEPT !.tileData = BandTileData(task, bandArrayIndex),
               !.alphaMask = BandAlphaMask(task, bandArrayIndex),
               !.isNodataPixel[bandArrayIndex + 1] = BandFlags(task, bandArrayIndex)]

\* the pixel loop of one band: writes into tileData and, for the first band
\* slot (alphaMask && bandArrayIndex === 0), into alphaMask
ProcessBand(task, bandArrayIndex) ==
  [task EXCEPT !.tileData = BandTileData(task, bandArrayIndex),
               !.alphaMask = IF bandArrayIndex = 0
                               THEN BandAlphaMask(task, bandArrayIndex)
                               ELSE @,
               !.isNodataPixel[bandArrayIndex + 1] = BandFlags(task, bandArrayIndex)]

\* "Apply alpha channel if present": copy alphaMask into the last channel
ApplyAlpha(task) ==
  IF ~(task.format.hasAlpha /\ task.alphaMask # <<>>) THEN task.tileData
  ELSE [j \in DOMAIN task.tileData |->
          LET i == j - 1
              y == PixelRow(i, task)
              x == PixelCol(i, task)
          IN IF Covered(task, y, x)
                /\ PixelSlot(i, task) = task.format.channelCount - 1
               THEN At0(task.alphaMask, y * task.indices.x.size + x)
               ELSE task.tileData[j]]

NoTile == <<>>

\* the handler once a band promise settled: Promise.all rejects with the
\* first failure (catch: post the error); when every band is done the alpha
\* channel is applied and {tileData, success: true} is posted
AfterBand(task) ==
  IF task.pc # "reading" THEN task
  ELSE IF \E b \in DOMAIN task.reads : task.reads[b] = "failed"
    THEN [task EXCEPT !.pc = "done",
            !.posted = Append(@, [success |-> FALSE, tileData |-> NoTile])]
  ELSE IF \A b \in DOMAIN task.reads : task.reads[b] = "ok"
    THEN [task EXCEPT !.pc = "done", !.tileData = ApplyAlpha(task),
            !.posted = Append(@, [success |-> TRUE, tileData |-> ApplyAlpha(task)])]
  ELSE task

NoIndices ==
  [x |-> [nan |-> FALSE, lo |-> 0, hi |-> 0, size |-> 0],
   y |-> [nan |-> FALSE, lo |-> 0, hi |-> 0, size |-> 0]]

NoFormat == [ArrayType |-> "none", channelCount |-> 0, hasAlpha |-> FALSE]

\* self.onmessage up to `await openArray(...)`
TileOnMessage(msg, shape) ==
  /\ tasks = <<>>
  /\ tasks' = <<[msg |-> msg, shape |-> shape, pc |-> "opening",
                 indices |-> NoIndices, format |-> NoFormat,
                 tileData |-> <<>>, alphaMask |-> <<>>,
                 reads |-> [b \in DOMAIN msg.bands |-> "idle"],
                 isNodataPixel |-> [b \in DOMAIN msg.bands |-> <<>>],
                 issued |-> <<>>, posted |-> <<>>]>>
  /\ last' = Call("worker.onmessage", Num(Len(msg.bands)), NoBandsArg, NoTs,
                  FALSE, "none", 0)
  /\ SourceUnchanged

\* the selection of band slot b: [timeIndex, bandIndex, slice(y), slice(x)]
Selection(task, b) ==
  [band |-> task.msg.bands[b], y |-> task.indices.y, x |-> task.indices.x]

\* openArray settles.  On success: calculateArrayIndices,
\* determineOutputFormat, the two allocations and fills, then bands.map
\* starts every band's valueArray.get and the handler awaits Promise.all.
\* On failure the catch block posts {error, success: false}.
TileOpenArrayDone(ok) ==
  /\ Len(tasks) = 1
  /\ tasks[1].pc = "opening"
  /\ LET task == tasks[1]
         msg == task.msg
         indices == CalculateArrayIndices(msg.x, msg.y, task.shape,
                                          msg.tileSize, msg.tileRange)
         format == DetermineOutputFormat(msg.renderType,
                      msg.nodata.kind # "null" /\ msg.maskNodata, Len(msg.bands))
         totalPixels == msg.tileSize * msg.tileSize
         opened == [task EXCEPT
                      !.pc = "reading", !.indices = indices, !.format = format,
                      !.tileData = [j \in 1..(totalPixels * format.channelCount)
                                      |-> Px(0)],
                      !.alphaMask = IF format.hasAlpha
                                      THEN [j \in 1..(indices.x.size * indices.y.size)
                                              |-> OpaqueValue(msg)]
                                      ELSE <<>>,
                      !.reads = [b \in DOMAIN @ |-> "pending"]]
     IN tasks' = <<IF ok
                     THEN [opened EXCEPT !.issued =
                             [b \in DOMAIN msg.bands |-> Selection(opened, b)]]
                     ELSE [task EXCEPT !.pc = "done",
                             !.posted = Append(@, [success |-> FALSE,
                                                   tileData |-> NoTile])]>>
  /\ last' = Call("worker.openArray", Num(1), NoBandsArg, NoTs, ~ok, "none", 0)
  /\ SourceUnchanged

\* valueArray.get of band slot b settles.  A selection of four indices on an
\* array of fewer dimensions is rejected by the array library; otherwise the
\* read succeeds or fails with the store.
TileBandGetDone(b, ok) ==
  /\ Len(tasks) = 1
  /\ b \in DOMAIN tasks[1].reads
  /\ tasks[1].reads[b] = "pending"
  /\ ok => Len(tasks[1].shape) >= 4
  /\ tasks' = <<AfterBand(
        IF ok THEN [ProcessBand(tasks[1], b - 1) EXCEPT !.reads[b] = "ok"]
              ELSE [tasks[1] EXCEPT !.reads[b] = "failed"])>>
  /\ last' = Call("worker.get", Num(b), NoBandsArg, NoTs, ~ok, "none", 0)
  /\ SourceUnchanged

(***************************************************************************)
(* The requests and arrays the check runs over.                            *)
(***************************************************************************)
\* array dimensions that need one or two tiles per axis
TileDims == (TileSize + 1)..(2 * TileSize)

ShapeInputs ==
  {<<1, 3, h, w>> : h \in TileDims, w \in TileDims}
    \cup {<<3, 2 * TileSize, 2 * TileSize>>, <<2 * TileSize, 2 * TileSize>>}

NodataInputs ==
  {NodataNull, NodataScalar(Px(7)),
   NodataArray(<<PxNaN, Px(7), PxNull>>),
   NodataArray(<<Px(7), Px(300), PxNaN>>)}

NormalizationInputs ==
  {NormalizationNull,
   NormalizationArray(<<PxRange(5, 9), PxRange(7, 7), PxNoRange>>),
   NormalizationArray(<<PxNoRange, PxRange(5, 9), PxRange(1, 9)>>)}

StrategyInputs ==
  {[strategy |-> "raw", replaceValue |-> Px(0)],
   [strategy |-> "normalize", replaceValue |-> Px(0)],
   [strategy |-> "normalize_clamp", replaceValue |-> Px(0)],
   [strategy |-> "replace", replaceValue |-> Px(0)],
   [strategy |-> "replace", replaceValue |-> Px(9)]}

RenderInputs ==
  {[renderType |-> "raw", params |-> ParamsNull],
   [renderType |-> "display", params |-> ParamsNull],
   [renderType |-> "display", params |-> ParamsNormalize],
   [renderType |-> "display",
    params |-> ParamsStdStretch(<<StretchOf(5, 2, 1), StretchOf(7, 0, 1),
                                  StretchOf(5, 2, 2)>>)]}

MessageInputs ==
  {[x |-> x, y |-> y, tileSize |-> TileSize, tileRange |-> [maxX |-> 1, maxY |-> 1],
    bands |-> bands, nodata |-> nodata, normalization |-> normalization,
    renderType |-> r.renderType, displayRenderParams |-> r.params,
    nodataStrategy |-> s.strategy, nodataReplaceValue |-> s.replaceValue,
    maskNodata |-> mask] :
      x \in 0..1, y \in 0..1, bands \in {<<0>>, <<2, 0, 1>>},
      nodata \in NodataInputs, normalization \in NormalizationInputs,
      r \in RenderInputs, s \in StrategyInputs, mask \in BOOLEAN}

InitTile ==
  /\ config_ = ConfigStrings
  /\ timestamps_ = config_.timestamps
  /\ currentTimeIndex_ = 0
  /\ bands_ = config_.bands
  /\ resolvedCache_ = InitialCache
  /\ values_ = [time |-> config_.timestamps[1], bands |-> config_.bands]
  /\ workerPool_ = <<>>
  /\ workers = <<>>
  /\ requests = <<>>
  /\ tasks = <<>>
  /\ creation = NoCreation
  /\ last = Call("create", NoArg, NoBandsArg, NoTs, FALSE, "none", 0)

NextTile ==
  \/ /\ tasks = <<>>
     /\ \E msg \in MessageInputs : \E shape \in ShapeInputs :
           TileOnMessage(msg, shape)
  \/ \E ok \in BOOLEAN : TileOpenArrayDone(ok)
  \/ \E b \in 1..3 : \E ok \in BOOLEAN : TileBandGetDone(b, ok)

SpecTile == InitTile /\ [][NextTile]_vars

(***************************************************************************)
(* ZarrTile._generateFullArrays: the resolution of every zoom 0..maxZoom.  *)
(* zoomLevels is a sequence of integers; a resolution is a whole number of *)
(* 1/2000 map units (ResolutionOf gives the number), so that the validator *)
(* compares integers and the table is computed on exact fractions.  The    *)
(* result is the array fullResolutions, zoom z at position z + 1.          *)
(***************************************************************************)
ResolutionOf(r) == Rat(r, 2000)
INCREMENT == Rat(1, 1000)

\* zoomLevels.forEach: a later index overwrites an earlier one
SupportedIdx(zoomLevels, z) ==
  LET at == {i \in DOMAIN zoomLevels : zoomLevels[i] = z}
  IN IF at = {} THEN 0 ELSE CHOOSE i \in at : \A j \in at : j <= i

\* the last index with a zoom below z and the first index with a zoom above z
\* (0 stands for the -1 of the code)
PrevSupportedIdx(zoomLevels, z) ==
  LET below == {i \in DOMAIN zoomLevels : zoomLevels[i] < z}
  IN IF below = {} THEN 0 ELSE CHOOSE i \in below : \A j \in below : j <= i

NextSupportedIdx(zoomLevels, z) ==
  LET above == {i \in DOMAIN zoomLevels : zoomLevels[i] > z}
  IN IF above = {} THEN 0 ELSE CHOOSE i \in above : \A j \in above : i <= j

\* the entry of zoom z after the two loops
FullResolutionAt(resolutions, zoomLevels, z) ==
  LET maxZoom == SeqMax(zoomLevels)
      minZoom == SeqMin(zoomLevels)
      res == [i \in DOMAIN resolutions |-> ResolutionOf(resolutions[i])]
      prevSupportedIdx == PrevSupportedIdx(zoomLevels, z)
      nextSupportedIdx == NextSupportedIdx(zoomLevels, z)
  IN IF SupportedIdx(zoomLevels, z) # 0 THEN res[SupportedIdx(zoomLevels, z)]
     ELSE IF z < minZoom THEN PxAdd(res[1], PxMul(Px(minZoom - z), INCREMENT))
     ELSE IF z > maxZoom
       THEN PxSub(res[Len(res)], PxMul(Px(z - maxZoom), INCREMENT))
     ELSE IF prevSupportedIdx # 0 /\ nextSupportedIdx # 0
       THEN LET prevZoom == zoomLevels[prevSupportedIdx]
                nextZoom == zoomLevels[nextSupportedIdx]
                ratio == Rat(z - prevZoom, nextZoom - prevZoom)
                interpolated ==
                  PxAdd(res[prevSupportedIdx],
                        PxMul(PxSub(res[nextSupportedIdx], res[prevSupportedIdx]),
                              ratio))
            IN PxAdd(interpolated, PxMul(INCREMENT, Px(z - prevZoom)))
     ELSE res[IF prevSupportedIdx # 0 THEN prevSupportedIdx ELSE nextSupportedIdx]

\* fullResolutions before the first entry is made unique
FullArraysFilled(resolutions, zoomLevels) ==
  [p \in 1..(SeqMax(zoomLevels) + 1) |->
     FullResolutionAt(resolutions, zoomLevels, p - 1)]

GenerateFullArrays(resolutions, zoomLevels) ==
  [FullArraysFilled(resolutions, zoomLevels) EXCEPT ![1] = PxAdd(@, PxHalf)]

(***************************************************************************)
(* The table of a (zoomLevels, resolutions) pair: validateZoomAndResolutions*)
(* and then, for an accepted pair, _generateFullArrays as the constructor  *)
(* calls it.  creation is [pc, zoomLevels, resolutions, fullResolutions].  *)
(***************************************************************************)
RECURSIVE Ascending(_)
Ascending(S) ==
  IF S = {} THEN <<>>
  ELSE LET m == CHOOSE x \in S : \A y \in S : x <= y
       IN <<m>> \o Ascending(S \ {m})

Reversed(s) == [i \in DOMAIN s |-> s[Len(s) + 1 - i]]

\* in 1/2000 map units: 0.0005, 0.001, 2, 4 and 8
ResolutionValues == {1, 2, 4000, 8000, 16000}

ZoomLevelInputs ==
  {Ascending(S) : S \in (SUBSET (0..MaxZoomInput)) \ {{}}}
    \cup {<<>>, <<1, 0>>, <<2, 2>>}

ResolutionInputs ==
  {Reversed(Ascending(S)) : S \in (SUBSET ResolutionValues) \ {{}}}
    \cup {<<>>, <<4000, 8000>>, <<2, 2>>, <<0>>}

NoTable == <<>>

InitGrid ==
  /\ config_ = NoInstance
  /\ timestamps_ = <<>>
  /\ currentTimeIndex_ = 0
  /\ bands_ = <<>>
  /\ resolvedCache_ = InitialCache
  /\ values_ = [time |-> NoTs, bands |-> <<>>]
  /\ workerPool_ = <<>>
  /\ workers = <<>>
  /\ requests = <<>>
  /\ tasks = <<>>
  /\ creation \in {[pc |-> "called", zoomLevels |-> z, resolutions |-> r,
                    fullResolutions |-> NoTable] :
                     z \in ZoomLevelInputs, r \in ResolutionInputs}
  /\ last = CreateStep("validateZoomAndResolutions", FALSE)

GridUnchanged ==
  UNCHANGED <<config_, timestamps_, currentTimeIndex_, bands_, resolvedCache_,
              values_, workerPool_, workers, requests, tasks>>

GridValidate ==
  /\ creation.pc = "called"
  /\ LET r == ValidateZoomAndResolutions(JsArr(creation.zoomLevels),
                                         JsArr(creation.resolutions))
     IN /\ creation' = [creation EXCEPT !.pc = IF r.ok THEN "validated"
                                                        ELSE "rejected"]
        /\ last' = CreateStep("validateZoomAndResolutions", ~r.ok)
  /\ GridUnchanged

GridGenerate ==
  /\ creation.pc = "validated"
  /\ creation' =
       [creation EXCEPT !.pc = "generated",
                        !.fullResolutions =
                           GenerateFullArrays(creation.resolutions,
                                              creation.zoomLevels)]
  /\ last' = CreateStep("_generateFullArrays", FALSE)
  /\ GridUnchanged

NextGrid ==
  \/ GridValidate
  \/ GridGenerate

SpecGrid == InitGrid /\ [][NextGrid]_vars

(***************************************************************************)
(* SpecSource: every operation of a created source together: the view      *)
(* state operations and the tile loader with its workers, for              *)
(* MaxSourceTiles dispatched tiles.                                        *)
(***************************************************************************)
MaxSourceTiles == 1

SourceTimeInputs == LoaderTimeInputs \cup {Num(2), StrV}
SourceTimeValueInputs == {IntTs(1), StrTs(2), DateTs(160, 91)}
SourceBandInputs ==
  LoaderBandInputs \cup {BandList(<<Num(0), Num(1), Num(2)>>), BandList(<<>>)}

NextSource ==
  \/ \E index \in SourceTimeInputs : SetCurrentTimeIndex(index)
  \/ \E tv \in SourceTimeValueInputs : SetCurrentTime(tv)
  \/ \E bands \in SourceBandInputs : SetBands(bands)
  \/ NextTimestep
  \/ PreviousTimestep
  \/ \E n \in StepInputs : NextTimesteps(n)
  \/ \E n \in StepInputs : PreviousTimesteps(n)
  \/ GetCurrent
  \/ \E z \in ZoomInputs : TileLoaderWithin(z, MaxSourceTiles)
  \/ \E r \in DOMAIN requests : TileLoaderPost(r)
  \/ \E w \in DOMAIN workers : \E j \in 1..MaxSourceTiles : \E ok \in BOOLEAN :
        WorkerRespond(w, j, ok)
  \/ \E w \in DOMAIN workers : OnMessage(w)
  \/ TerminateAllWorkers

SpecSource == Init /\ [][NextSource]_vars

(***************************************************************************)
(* SpecIndices: calculateArrayIndices on its own, for every tile of a tile *)
(* range, every tile size and every array height and width up to the       *)
(* bounds.  The tile range comes from the tile grid of the source and the  *)
(* shape from the array that was opened: nothing relates the two.  tasks   *)
(* holds the one call: [pc, x, y, arrayShape, tileSize, tileRange,         *)
(* indices].                                                               *)
(***************************************************************************)
MaxTileSizeInput == 3
MaxDimInput == 7
MaxTileIndex == 2

IndicesCalls ==
  {[pc |-> "called", x |-> x, y |-> y, arrayShape |-> <<1, 1, h, w>>,
    tileSize |-> ts, tileRange |-> [maxX |-> maxX, maxY |-> maxY],
    indices |-> NoIndices] :
     x \in 0..MaxTileIndex, y \in 0..MaxTileIndex,
     maxX \in 0..MaxTileIndex, maxY \in 0..MaxTileIndex,
     h \in 1..MaxDimInput, w \in 1..MaxDimInput, ts \in 1..MaxTileSizeInput}

InitIndices ==
  /\ config_ = ConfigStrings
  /\ timestamps_ = config_.timestamps
  /\ currentTimeIndex_ = 0
  /\ bands_ = config_.bands
  /\ resolvedCache_ = InitialCache
  /\ values_ = [time |-> config_.timestamps[1], bands |-> config_.bands]
  /\ workerPool_ = <<>>
  /\ workers = <<>>
  /\ requests = <<>>
  /\ tasks \in {<<c>> : c \in {d \in IndicesCalls :
                                 d.x <= d.tileRange.maxX /\ d.y <= d.tileRange.maxY}}
  /\ creation = NoCreation
  /\ last = Call("create", NoArg, NoBandsArg, NoTs, FALSE, "none", 0)

CalculateIndices ==
  /\ tasks[1].pc = "called"
  /\ tasks' = <<[tasks[1] EXCEPT
                   !.pc = "computed",
                   !.indices = CalculateArrayIndices(tasks[1].x, tasks[1].y,
                                 tasks[1].arrayShape, tasks[1].tileSize,
                                 tasks[1].tileRange)]>>
  /\ last' = Call("calculateArrayIndices", NoArg, NoBandsArg, NoTs, FALSE, "none", 0)
  /\ SourceUnchanged

NextIndices == CalculateIndices

SpecIndices == InitIndices /\ [][NextIndices]_vars

(***************************************************************************)
(* SpecAggregates: sources over every statistics case and every            *)
(* normalization strategy, under time changes, band changes, cache         *)
(* refreshes and tile requests.  Each configuration is one that            *)
(* resolveAllProperties returns: per-composition statistics (cases 2 and   *)
(* 4) have one entry per band of the composition the source is created     *)
(* with, per-time arrays have one value per timestamp.                     *)
(***************************************************************************)
AggregateTimestamps == <<IntTs(0), IntTs(1)>>

PerTimeStats3 ==
  <<[min |-> Ar(<<1, 2>>), max |-> Ar(<<11, 12>>),
     mean |-> Ar(<<5, 6>>), std |-> Ar(<<2, 3>>)],
    [min |-> Ar(<<3, 0>>), max |-> Ar(<<13, 10>>),
     mean |-> Ar(<<7, 4>>), std |-> Ar(<<1, 2>>)],
    [min |-> Ar(<<4, 5>>), max |-> Ar(<<14, 15>>),
     mean |-> Ar(<<8, 9>>), std |-> Ar(<<3, 1>>)]>>

PerTimeStats1 ==
  <<[min |-> Ar(<<6, 4>>), max |-> Ar(<<16, 18>>),
     mean |-> Ar(<<9, 8>>), std |-> Ar(<<2, 1>>)]>>

ScalarStats3 ==
  <<[min |-> Sc(1), max |-> Sc(11), mean |-> Sc(5), std |-> Sc(2)],
    [min |-> Sc(3), max |-> Sc(13), mean |-> Sc(7), std |-> Sc(1)],
    [min |-> Sc(4), max |-> Sc(14), mean |-> Sc(8), std |-> Sc(3)]>>

GlobalStats1 == <<[min |-> Sc(2), max |-> Sc(20), mean |-> Sc(9), std |-> Sc(4)]>>

\* [statistics, format, bands]: the statistics with the band compositions a
\* source holding them can be created with
AggregateShapes ==
  {[statistics |-> PerTimeStats3, format |-> "case4", bands |-> b] :
      b \in {<<0, 1, 2>>, <<2, 0, 1>>}}
  \cup {[statistics |-> PerTimeStats1, format |-> "case4", bands |-> b] :
      b \in {<<0>>, <<1>>}}
  \cup {[statistics |-> PerTimeStats3, format |-> "case5", bands |-> b] :
      b \in {<<1>>, <<2, 0, 1>>}}
  \cup {[statistics |-> ScalarStats3, format |-> "case2", bands |-> <<2, 0, 1>>],
        [statistics |-> ScalarStats3, format |-> "case3", bands |-> <<1>>],
        [statistics |-> GlobalStats1, format |-> "case1", bands |-> <<1>>]}

AggregateConfigs ==
  {MakeConfig(AggregateTimestamps, s.bands, <<2, 3, 8, 8>>, "<i2",
              [kind |-> "null", vals |-> <<>>], "none",
              s.statistics, s.format, Normalize(strategy), "display",
              Drc("std_stretch")) :
     s \in AggregateShapes, strategy \in NORMALIZATION_STRATEGIES}

AggregateBandInputs ==
  {BandList(<<Num(0)>>), BandList(<<Num(1)>>),
   BandList(<<Num(0), Num(1), Num(2)>>), BandList(<<Num(2), Num(0), Num(1)>>)}

InitAggregates ==
  /\ config_ \in AggregateConfigs
  /\ timestamps_ = config_.timestamps
  /\ currentTimeIndex_ = 0
  /\ bands_ = config_.bands
  /\ resolvedCache_ = InitialCache
  /\ values_ = [time |-> config_.timestamps[1], bands |-> config_.bands]
  /\ workerPool_ = <<>>
  /\ workers = <<>>
  /\ requests = <<>>
  /\ tasks = <<>>
  /\ creation = NoCreation
  /\ last = Call("create", NoArg, NoBandsArg, NoTs, FALSE, "none", 0)

NextAggregates ==
  \/ \E index \in LoaderTimeInputs : SetCurrentTimeIndex(index)
  \/ \E bands \in AggregateBandInputs : SetBands(bands)
  \/ GetCurrent
  \/ \E z \in ZoomInputs : TileLoaderWithin(z, MaxSourceTiles)
  \/ \E r \in DOMAIN requests : TileLoaderPost(r)

SpecAggregates == InitAggregates /\ [][NextAggregates]_vars

(***************************************************************************)
(* Properties.                                                             *)
(***************************************************************************)
ViewUnchanged == UNCHANGED <<currentTimeIndex_, bands_, resolvedCache_, values_>>

LastIndex == Len(timestamps_) - 1

\* C1: on a source with a non-empty timestamp list, after any sequence of
\* setCurrentTimeIndex, setCurrentTime and time-navigation calls (throwing
\* calls included) the current time index i satisfies 0 <= i < len(timestamps).
C1_TimeIndexInRange ==
  Len(timestamps_) > 0 =>
    currentTimeIndex_ >= 0 /\ currentTimeIndex_ < Len(timestamps_)

\* an out-of-range index was requested and the source sits on the last timestep
C1_Witness ==
  /\ last.op = "setCurrentTimeIndex"
  /\ last.arg.kind = "int" /\ last.arg.val > LastIndex
  /\ currentTimeIndex_ = LastIndex /\ LastIndex > 0

\* C2: setCurrentTimeIndex(i) with an integer i sets the index to
\* clamp(i, 0, len - 1) and changes nothing (index, bands, cache, observable
\* properties, no refresh) when that equals the current index; with a
\* non-integer i it throws and leaves index, bands and cache unchanged.
C2_SetCurrentTimeIndex ==
  [][last'.op = "setCurrentTimeIndex" =>
       LET i == last'.arg
           clamped == IF i.val < 0 THEN 0
                      ELSE IF i.val > LastIndex THEN LastIndex ELSE i.val
       IN IF i.kind = "int"
            THEN /\ ~last'.threw
                 /\ currentTimeIndex_' = clamped
                 /\ clamped = currentTimeIndex_ =>
                      ViewUnchanged /\ last'.refreshes = 0
            ELSE /\ last'.threw
                 /\ UNCHANGED <<currentTimeIndex_, bands_, resolvedCache_>>]_vars

\* a non-integer index was rejected while the cache was valid at a later timestep
C2_Witness ==
  /\ last.op = "setCurrentTimeIndex"
  /\ last.arg.kind \in {"frac", "nan", "inf", "str", "undef"}
  /\ last.threw
  /\ currentTimeIndex_ > 0 /\ resolvedCache_.valid

\* C3: every setter call that changes the view state (setCurrentTimeIndex
\* changing the index, setBands changing the bands) marks the cache invalid
\* and triggers a refresh before it returns.
C3_MutationInvalidatesAndRefreshes ==
  [][(/\ last'.op \in {"setCurrentTimeIndex", "setBands"}
      /\ (currentTimeIndex_' # currentTimeIndex_ \/ bands_' # bands_))
       => (~resolvedCache_'.valid /\ last'.refreshes >= 1)]_vars

\* the band-list arguments the claim calls invalid: not an array, a length
\* other than 1 or 3, a negative or non-integer element
BandsArgInvalid(b) ==
  \/ ~b.isArray
  \/ Len(b.elems) \notin {1, 3}
  \/ \E k \in DOMAIN b.elems : b.elems[k].kind # "int" \/ b.elems[k].val < 0

BandsArgValues(b) == [k \in DOMAIN b.elems |-> b.elems[k].val]

\* C4: setBands(list) throws and leaves bands and cache unchanged when list
\* fails band validation; is a no-op without refresh when list equals the
\* current bands; otherwise stores a copy of list and marks the cache invalid.
C4_SetBands ==
  [][last'.op = "setBands" =>
       LET b == last'.argBands
       IN IF BandsArgInvalid(b)
            THEN last'.threw /\ UNCHANGED <<bands_, resolvedCache_>>
            ELSE IF BandsArgValues(b) = bands_
              THEN ~last'.threw /\ ViewUnchanged /\ last'.refreshes = 0
              ELSE /\ ~last'.threw
                   /\ bands_' = BandsArgValues(b)
                   /\ ~resolvedCache_'.valid]_vars

\* a list of length two was rejected while the cache was valid
C4_Witness ==
  /\ last.op = "setBands"
  /\ last.argBands.isArray /\ Len(last.argBands.elems) = 2
  /\ last.threw
  /\ resolvedCache_.valid

\* C5: after any sequence of setBands calls the current band list has the
\* arity of the configuration's band list.
C5_SameArity == Len(bands_) = Len(config_.bands)

\* the number of bands of the value array (shape[1])
TotalBands == At0(config_.valueArrayShape, 1)

\* C6: every index of the current band list is below the value array's band
\* count B; a setBands call containing an index >= B is rejected and leaves
\* the current bands unchanged.
C6_BandsBelowTotal ==
  [][/\ \A k \in DOMAIN bands_' : bands_'[k] < TotalBands
     /\ (/\ last'.op = "setBands"
         /\ \E k \in DOMAIN last'.argBands.elems :
               last'.argBands.elems[k].kind = "int"
               /\ last'.argBands.elems[k].val >= TotalBands)
          => (last'.threw /\ bands_' = bands_)]_vars

\* C7: nextTimestep adds exactly one and returns true below the last index,
\* otherwise leaves the index and returns false; previousTimestep likewise
\* above index 0; the return value is true iff the index changed.
C7_SingleStep ==
  [][/\ last'.op = "nextTimestep" =>
          IF currentTimeIndex_ < LastIndex
            THEN currentTimeIndex_' = currentTimeIndex_ + 1 /\ last'.ret = "true"
            ELSE currentTimeIndex_' = currentTimeIndex_ /\ last'.ret = "false"
     /\ last'.op = "previousTimestep" =>
          IF currentTimeIndex_ > 0
            THEN currentTimeIndex_' = currentTimeIndex_ - 1 /\ last'.ret = "true"
            ELSE currentTimeIndex_' = currentTimeIndex_ /\ last'.ret = "false"
     /\ last'.op \in {"nextTimestep", "previousTimestep"} =>
          (last'.ret = "true" <=> currentTimeIndex_' # currentTimeIndex_)]_vars

\* nextTimestep was refused on the last of several timesteps
C7_Witness ==
  /\ last.op = "nextTimestep" /\ last.ret = "false"
  /\ currentTimeIndex_ = LastIndex /\ LastIndex > 0

\* C8: nextTimesteps(n) / previousTimesteps(n) with an integer n >= 0 move to
\* min(i + n, len - 1) / max(i - n, 0) and return true iff the index
\* changed; with a negative or non-integer n they throw and leave the index
\* and the cache validity unchanged.
C8_MultiStep ==
  [][last'.op \in {"nextTimesteps", "previousTimesteps"} =>
       LET n == last'.arg
           i == currentTimeIndex_
           target == IF last'.op = "nextTimesteps"
                       THEN (IF i + n.val > LastIndex THEN LastIndex ELSE i + n.val)
                       ELSE (IF i - n.val < 0 THEN 0 ELSE i - n.val)
       IN IF n.kind = "int" /\ n.val >= 0
            THEN /\ ~last'.threw
                 /\ currentTimeIndex_' = target
                 /\ last'.ret = "true" <=> currentTimeIndex_' # i
            ELSE /\ last'.threw
                 /\ currentTimeIndex_' = i
                 /\ resolvedCache_'.valid = resolvedCache_.valid]_vars

\* a negative count was rejected while the cache was valid, away from index 0
C8_Witness ==
  /\ last.op = "nextTimesteps"
  /\ last.arg.kind = "int" /\ last.arg.val < 0
  /\ last.threw
  /\ currentTimeIndex_ > 0 /\ resolvedCache_.valid

\* the zoom set of the configuration, as the claim reads it
SupportedZooms == {config_.zoomLevels[k] : k \in DOMAIN config_.zoomLevels}

\* C9: a tile-loader call with a zoom outside the supported set yields
\* undefined and dispatches nothing: view state, cache, idle pool, workers
\* and requests are unchanged.
C9_UnsupportedZoom ==
  [][(last'.op = "tileLoader" /\ last'.arg.val \notin SupportedZooms) =>
       /\ last'.ret = "undefined"
       /\ ViewUnchanged
       /\ UNCHANGED <<workerPool_, workers, requests>>]_vars

\* an unsupported zoom was requested with an idle worker pooled, the cache
\* invalid and room for another request
C9_Witness ==
  /\ last.op = "tileLoader" /\ last.ret = "undefined"
  /\ Len(workerPool_) > 0
  /\ ~resolvedCache_.valid
  /\ Len(requests) < MaxRequests

\* C10: whenever the cache is marked valid, its time index and bands are the
\* current ones and its four fields are the values derived from that pair.
C10_ValidCacheIsCurrent ==
  resolvedCache_.valid =>
    LET statistics == ResolveCurrentStatistics(config_, currentTimeIndex_, bands_)
    IN /\ resolvedCache_.timeIndex = currentTimeIndex_
       /\ ArraysEqual(resolvedCache_.bands, bands_)
       /\ resolvedCache_.nodata = ResolveCurrentNodata(config_, bands_)
       /\ resolvedCache_.statistics = statistics
       /\ resolvedCache_.normalization =
            ResolveCurrentNormalization(config_, currentTimeIndex_, bands_, statistics)
       /\ resolvedCache_.displayRenderParams =
            ResolveCurrentDisplayRenderParams(config_, bands_, statistics)

\* the cache was recomputed after both the time index and the bands changed
C10_Witness ==
  /\ resolvedCache_.valid
  /\ last.op = "getCurrent"
  /\ currentTimeIndex_ > 0
  /\ bands_ # config_.bands

\* C11: every message posted to a worker carries the nodata, normalization
\* and displayRenderParams derived for the timeIndex and bands of that same
\* message, whatever setter ran between worker acquisition and the post.
C11_MessageIsSnapshot ==
  [][last'.op = "tileLoader.post" =>
       LET m == last'.msg
           statistics == ResolveCurrentStatistics(config_, m.timeIndex, m.bands)
       IN /\ m.nodata = ResolveCurrentNodata(config_, m.bands)
          /\ m.normalization =
               ResolveCurrentNormalization(config_, m.timeIndex, m.bands, statistics)
          /\ m.displayRenderParams =
               ResolveCurrentDisplayRenderParams(config_, m.bands, statistics)]_vars

\* the worker of a handled event is back in the idle pool, or was terminated
\* because the pool was full
HandedBack(w) ==
  \/ workerPool_' = Append(workerPool_, w)
  \/ Len(workerPool_) >= maxWorkers_ /\ workerPool_' = workerPool_
                                     /\ workers'[w].terminated

\* C12: when the response of a dispatched request is delivered, the worker is
\* handed back and the request's promise is resolved if the response carries
\* no error and rejected otherwise.
C12_ResponseSettlesRequest ==
  [][last'.op = "onmessage" =>
       /\ HandedBack(last'.arg.val)
       /\ requests'[last'.job].outcome =
            (IF last'.ret = "err" THEN "rejected" ELSE "resolved")]_vars

\* C13: every tile-loader call on a supported zoom eventually settles its
\* promise, and a settled promise keeps its outcome, for any interleaving of
\* the requests' responses.
C13_EventuallySettles ==
  /\ \A r \in 1..MaxTiles :
       (Len(requests) >= r) ~>
         (Len(requests) >= r /\ requests[r].outcome # "pending")
  /\ [][\A r \in DOMAIN requests :
          requests[r].outcome # "pending" =>
            requests'[r].outcome = requests[r].outcome]_vars

\* C14: a promise is settled only by the delivery of its own request's
\* response or error, with the outcome that response carries, and handling a
\* response or an error changes neither the view state nor the cache.
C14_FailureIsIsolated ==
  [][/\ \A r \in DOMAIN requests :
          requests'[r].outcome # requests[r].outcome =>
            /\ last'.job = r
            /\ requests'[r].outcome =
                 (IF last'.ret = "ok" THEN "resolved" ELSE "rejected")
     /\ last'.op \in {"onmessage", "onerror"} => ViewUnchanged]_vars

C16_PoolBounded ==
  /\ [](Len(workerPool_) <= maxWorkers_)
  /\ [][(last'.op \in {"onmessage", "onerror"} /\ Len(workerPool_) = maxWorkers_)
          => /\ workerPool_' = workerPool_
             /\ workers'[last'.arg.val].terminated]_vars

\* a worker was handed back to a full pool and terminated
C16_Witness ==
  /\ last.op \in {"onmessage", "onerror"}
  /\ Len(workerPool_) = maxWorkers_
  /\ workers[last.arg.val].terminated

\* C17: acquiring a worker for a tile request reuses the top idle worker and
\* creates none when the pool is non-empty, and creates a new worker when the
\* pool is empty, however many workers are in use.
C17_AcquireNeverBlocks ==
  [][(last'.op = "tileLoader" /\ last'.ret = "promise") =>
       LET r == requests'[Len(requests')]
       IN /\ Len(requests') = Len(requests) + 1
          /\ IF Len(workerPool_) > 0
               THEN /\ r.worker = workerPool_[Len(workerPool_)]
                    /\ workerPool_' = SubSeq(workerPool_, 1, Len(workerPool_) - 1)
                    /\ workers' = workers
               ELSE /\ Len(workers') = Len(workers) + 1
                    /\ r.worker = Len(workers')
                    /\ workers'[r.worker] = NewWorker
                    /\ workerPool_' = <<>>]_vars

\* a new worker was created for a request while another request's worker
\* was still in use and the pool was empty
C17_Witness ==
  /\ last.op = "tileLoader" /\ last.ret = "promise"
  /\ Len(requests) = 2
  /\ requests[1].outcome = "pending"
  /\ requests[2].worker # requests[1].worker
  /\ workerPool_ = <<>>

\* some validation that resolveAllProperties runs on the inputs of creation c
\* fails: each property is validated from the source it is taken from
ValidationFails(c) ==
  LET o == c.options
      g == c.groupMetadata
      m == c.valueArrayMetadata
      bd == ValidateBands(IF o.bands.given THEN o.bands.value ELSE DefaultBands,
                          TotalBandsOf(m.shape))
      zr == ResolveZoomAndResolutions(o, g)
      ts == ResolveTimestamps(o, c.store, zr.zoomLevels, m)
      st == ResolveStatistics(o, c.store, bd.bands, ts.timestamps, zr.zoomLevels, m)
      rt == ValidateRenderType(o.render_type)
  IN \/ ~ResolveExtent(o, g).ok
     \/ ~zr.ok
     \/ ~ts.ok
     \/ ~bd.ok
     \/ ~ResolveNodata(o, g, m, bd.bands).ok
     \/ ~st.ok
     \/ ~ValidateNormalization(o.normalize, st.keys).ok
     \/ ~rt.ok
     \/ ~ValidateNodataStrategy(o.nodata_strategy).ok
     \/ ~ValidateNodataReplaceValue(o.nodata_replace_value).ok
     \/ ~ValidateMaskNodata(o.mask_nodata).ok
     \/ (rt.value = "display" /\ ~ValidateDisplayRenderConfig(o.drc, st.keys).ok)

\* C18: ZarrTile.create returns an instance only if every configuration
\* property validates.  A missing or blank url/path rejects at the first
\* phase; a failing validation of extent, zoom levels/resolutions, timestamps,
\* bands, no-data, statistics, normalization, render options or display
\* stretch rejects at the resolution phase; a rejected call carries an error
\* and has constructed no instance; an instance exists only after a call went
\* through every phase; and a direct constructor call from outside the module
\* always throws.
C18_CreateOnlyIfValid ==
  /\ [](creation.instances > 0 => creation.pc = "created")
  /\ [](creation.pc = "rejected" =>
          /\ creation.error # "none"
          /\ creation.instances = 0
          /\ config_ = NoInstance)
  /\ [](last.op = "new ZarrTile" => last.threw)
  /\ [][/\ (creation.pc = "called" /\ creation'.pc # "called") =>
             (creation'.pc = "rejected"
                <=> (NotNonEmptyString(creation.options.url)
                       \/ NotNonEmptyString(creation.options.path)))
        /\ (creation.pc = "resolve" /\ creation'.pc # "resolve") =>
             (creation'.pc = "rejected" <=> ValidationFails(creation))]_vars

\* a call rejected by the last validation of the resolution (the display
\* stretch), with no instance, followed by a direct constructor call that threw
C18_Witness ==
  /\ creation.pc = "rejected"
  /\ creation.error = "drc"
  /\ creation.instances = 0
  /\ last.op = "new ZarrTile"
  /\ last.threw

\* the timestamps the time array at location loc of the store converts to
TimeArrayAt(c, loc) == TryTimeArray(AtLoc(c.store.timeAt, loc, NoTimeArr))

\* the statistics array at location loc of the store is a usable 3-D array
StatsArrayAt(c, loc) ==
  LET arr == AtLoc(c.store.statsAt, loc, NoStatsArr)
  IN arr.ok /\ Len(arr.shape) = 3

\* the directory of the highest resolved zoom level
HighestZoom == SeqMax(config_.zoomLevels)

\* C19: during creation a failed fetch of the attribute document, of the time
\* array or of the statistics array never ends the call.  The attribute
\* document phase always continues, with {} when the fetch failed.  With no
\* user timestamps, the created source has the timestamps of the time array at
\* the dataset root when that array converts, otherwise those of the array
\* under the highest zoom, otherwise the ones derived from the value array
\* shape; with no user statistics it has the statistics array at the root,
\* otherwise the one under the highest zoom, otherwise the dtype limits.  The
\* value-array phase rejects exactly when the value array cannot be opened.
C19_OnlyValueArrayIsFatal ==
  /\ [][(creation.pc = "extractGroup" /\ creation'.pc # "extractGroup") =>
          /\ creation'.pc = "extractValue"
          /\ creation'.groupMetadata =
               IF creation.store.group.ok THEN creation.store.group.doc ELSE EmptyDoc]_vars
  /\ [][(creation.pc = "extractValue" /\ creation'.pc # "extractValue") =>
          LET zooms == OrElse2(creation.options.zoomLevels,
                         OrElse2(creation.groupMetadata.zoom_levels,
                                 creation.groupMetadata.zoomLevels))
              loc == IF HasZooms(zooms) THEN SeqMax(zooms.vals) ELSE RootLoc
          IN creation'.pc = "rejected"
               <=> ~AtLoc(creation.store.valueAt, loc, NoValueArr).ok]_vars
  /\ []((creation.pc = "created" /\ TsFalsy(creation.options.timestamps)) =>
          LET root == TimeArrayAt(creation, RootLoc)
              zoom == TimeArrayAt(creation, HighestZoom)
              shape == ShapeTimestamps(creation.valueArrayMetadata.shape)
          IN config_.timestamps =
               IF root.ok
                 THEN IF Len(root.timestamps) > 0 THEN root.timestamps
                      ELSE shape.timestamps
               ELSE IF zoom.ok /\ Len(zoom.timestamps) > 0 THEN zoom.timestamps
               ELSE shape.timestamps)
  /\ []((creation.pc = "created" /\ creation.options.statistics.kind = "undef") =>
          config_.statisticsFormat =
            IF StatsArrayAt(creation, RootLoc) \/ StatsArrayAt(creation, HighestZoom)
              THEN "case5" ELSE "case1")
  /\ [](creation.pc = "rejected" =>
          creation.error \notin {"group", "timeArray", "statisticsArray"})

\* a source created although the attribute document could not be fetched and
\* the time array at the root could not be read: its timestamps are those of
\* the time array under the highest zoom
C19_Witness ==
  /\ creation.pc = "created"
  /\ ~creation.store.group.ok
  /\ TsFalsy(creation.options.timestamps)
  /\ ~TimeArrayAt(creation, RootLoc).ok
  /\ config_.timestampType = "extracted_dates"
  /\ config_.timestamps = TimeArrayAt(creation, HighestZoom).timestamps

\* the first of the present values, for a property whose sources are the
\* user's value, then the dataset metadata, then a default
Precedence(user, dataset, default) ==
  IF Truthy(user) THEN user ELSE IF Truthy(dataset) THEN dataset ELSE default

\* the no-data value a source value resolves to
NodataOf(v) ==
  IF v.kind \in {"num", "array"} THEN [kind |-> v.kind, vals |-> v.vals]
  ELSE [kind |-> "null", vals |-> <<>>]

\* C20: in a created source each of crs, extent, zoomLevels, resolutions and
\* nodata is the user's value when the user gave one, otherwise the value of
\* the dataset attribute document when it has one, otherwise the default (for
\* nodata the fill value of the value array, then none).
C20_UserValueWins ==
  creation.pc = "created" =>
    LET o == creation.options
        g == creation.groupMetadata
        m == creation.valueArrayMetadata
    IN /\ config_.crs = Precedence(o.crs, g.crs, DefaultCrs)
       /\ config_.extent = Precedence(o.extent, g.extent, JsUndef).vals
       /\ config_.zoomLevels =
            Precedence(o.zoomLevels, OrElse2(g.zoom_levels, g.zoomLevels), JsUndef).vals
       /\ config_.resolutions = Precedence(o.resolutions, g.resolutions, JsUndef).vals
       /\ config_.nodata =
            NodataOf(IF o.nodata.kind # "undef" THEN o.nodata
                     ELSE IF g.nodata.kind # "undef" THEN g.nodata
                     ELSE m.fill_value)

\* the task of SpecTile once openArray succeeded on a 4-dimensional array
TileOpened ==
  /\ Len(tasks) = 1
  /\ tasks[1].format.ArrayType # "none"
  /\ Len(tasks[1].shape) = 4

\* the half-open read range of tile index t on an axis of length dim: the
\* upper bound of the last tile is reduced only by a non-zero remainder
StatedRange(t, maxT, dim, tileSize) ==
  [lo |-> t * tileSize,
   hi |-> IF t = maxT /\ dim % tileSize # 0
            THEN (t + 1) * tileSize - (tileSize - (dim % tileSize))
            ELSE (t + 1) * tileSize]

\* C21: for every tile (x, y) within the tile range, every array dimension
\* and tile size, the per-axis read range is [t*tileSize, (t+1)*tileSize),
\* except that at the maximum tile-range index the upper bound is reduced by
\* tileSize - (arrayDimension mod tileSize) when that remainder is non-zero;
\* when the remainder is zero the full tileSize range is read.
C21_ReadRange ==
  TileOpened =>
    LET task == tasks[1]
        msg == task.msg
        sx == StatedRange(msg.x, msg.tileRange.maxX, task.shape[4], msg.tileSize)
        sy == StatedRange(msg.y, msg.tileRange.maxY, task.shape[3], msg.tileSize)
    IN /\ task.indices.x.lo = sx.lo /\ task.indices.x.hi = sx.hi
       /\ task.indices.y.lo = sy.lo /\ task.indices.y.hi = sy.hi


\* the length of the last, partially filled tile of an axis (0: none)
Remainder(dim, tileSize) == dim % tileSize

\* pixel offset p of tile index t lies in the padding of an axis whose last
\* tile is partially filled
InPadding(p, t, maxT, dim, tileSize) ==
  t = maxT /\ Remainder(dim, tileSize) # 0 /\ p >= Remainder(dim, tileSize)

\* the tile of the task is a last tile on some axis, and every axis on which
\* it is the last tile is partially filled
PaddedTile(task) ==
  LET msg == task.msg
      lastX == msg.x = msg.tileRange.maxX
      lastY == msg.y = msg.tileRange.maxY
  IN /\ lastX \/ lastY
     /\ lastX => Remainder(task.shape[4], msg.tileSize) # 0
     /\ lastY => Remainder(task.shape[3], msg.tileSize) # 0

\* C22: for a tile at the maximum tile-range index where arrayDimension mod
\* tileSize is non-zero, no store read covers the padded region, and in the
\* returned buffer every pixel of the padded region holds the background
\* value: 0 in every data channel and the fully-opaque value in the alpha
\* channel when an alpha channel is present.
C22_PaddingKeepsBackground ==
  (TileOpened /\ PaddedTile(tasks[1])) =>
    LET task == tasks[1]
        msg == task.msg
        cc == task.format.channelCount
        padded(y, x) ==
          \/ InPadding(y, msg.y, msg.tileRange.maxY, task.shape[3], msg.tileSize)
          \/ InPadding(x, msg.x, msg.tileRange.maxX, task.shape[4], msg.tileSize)
    IN /\ \A b \in DOMAIN task.issued :
            /\ task.issued[b].y.hi <= task.shape[3]
            /\ task.issued[b].x.hi <= task.shape[4]
       /\ \A r \in DOMAIN task.posted : task.posted[r].success =>
            \A y \in 0..(msg.tileSize - 1) : \A x \in 0..(msg.tileSize - 1) :
              padded(y, x) =>
                /\ \A slot \in 0..(Len(msg.bands) - 1) :
                     At0(task.posted[r].tileData, (y * msg.tileSize + x) * cc + slot)
                       = Px(0)
                /\ task.format.hasAlpha =>
                     At0(task.posted[r].tileData, (y * msg.tileSize + x) * cc + cc - 1)
                       = OpaqueValue(msg)


\* the raw value and the sentinel of visited pixel j (1-based, row-major over
\* the covered region) of band slot b (1-based)
VisitedRaw(task, b, j) ==
  RawAt(task, b - 1, (j - 1) \div task.indices.x.size,
                     (j - 1) % task.indices.x.size)

\* x equals v, or v is not-a-number and x is not-a-number
EqualsSentinel(x, v) ==
  \/ x.k = "num" /\ v.k = "num" /\ x.n * v.d = v.n * x.d
  \/ x.k = "nan" /\ v.k = "nan"

\* C23: for every pixel value x and configured no-data sentinel v of a band,
\* the pixel is classified as no-data if and only if x equals v, or v is
\* not-a-number and x is not-a-number; with no sentinel configured no pixel
\* is classified as no-data.
C23_NodataClassification ==
  TileOpened =>
    LET task == tasks[1]
    IN \A b \in DOMAIN task.reads : task.reads[b] = "ok" =>
         \A j \in DOMAIN task.isNodataPixel[b] :
           LET x == VisitedRaw(task, b, j)
               v == BandNodata(task.msg, b - 1)
           IN /\ task.isNodataPixel[b][j] <=> (v.k # "null" /\ EqualsSentinel(x, v))
              /\ task.msg.nodata.kind = "null" => ~task.isNodataPixel[b][j]

\* a NaN pixel was classified as no-data against the NaN sentinel and a
\* number of the same band was not
C23_Witness ==
  /\ TileOpened
  /\ tasks[1].msg.nodata = NodataArray(<<PxNaN, Px(7), PxNull>>)
  /\ tasks[1].msg.bands = <<0>>
  /\ tasks[1].reads[1] = "ok"
  /\ \E j \in DOMAIN tasks[1].isNodataPixel[1] :
       tasks[1].isNodataPixel[1][j] /\ VisitedRaw(tasks[1], 1, j) = PxNaN
  /\ \E j \in DOMAIN tasks[1].isNodataPixel[1] :
       ~tasks[1].isNodataPixel[1][j] /\ VisitedRaw(tasks[1], 1, j) = Px(7)


\* the element of tileData for visited pixel j of band slot b (both 1-based)
WrittenAt(task, b, j) ==
  LET y == (j - 1) \div task.indices.x.size
      x == (j - 1) % task.indices.x.size
  IN At0(task.tileData,
         (y * task.msg.tileSize + x) * task.format.channelCount + (b - 1))

\* the result of the configured no-data strategy for raw value x of band
\* slot b: the raw value, the band's normalization formula (0 when the band
\* has no normalization range), the same clamped to [0,1], or the replace
\* value
StrategyValue(msg, b, x) ==
  LET range == NormRange(msg, b - 1)
  IN CASE msg.nodataStrategy = "raw" -> x
       [] msg.nodataStrategy = "normalize" ->
            IF range.set THEN NormalizeValue(x, range) ELSE Px(0)
       [] msg.nodataStrategy = "normalize_clamp" ->
            IF range.set THEN Clamp01(NormalizeValue(x, range)) ELSE Px(0)
       [] msg.nodataStrategy = "replace" -> msg.nodataReplaceValue

FirstBandNodata(task, y, x) ==
  IsNodata(RawAt(task, 0, y, x), BandNodata(task.msg, 0))

\* the value of band slot b (0-based) at covered pixel (y, x) is no-data
OtherBandNodata(task, b, y, x) ==
  IsNodata(RawAt(task, b, y, x), BandNodata(task.msg, b))

\* the last channel slot of pixel (y, x) in a buffer
AlphaAt(task, buffer, y, x) ==
  At0(buffer, (y * task.msg.tileSize + x) * task.format.channelCount
                + task.format.channelCount - 1)

\* C25: when an alpha channel is present, after all bands complete the last
\* channel slot of every covered pixel is transparent if and only if the
\* first processed band's value at that pixel is no-data and masking is
\* enabled, and opaque otherwise, whatever the other bands hold at that pixel
\* and in whatever order the concurrent band computations finish.
C25_AlphaFromFirstBand ==
  TileOpened =>
    LET task == tasks[1]
    IN \A r \in DOMAIN task.posted :
         (task.posted[r].success /\ task.format.hasAlpha) =>
           \A y \in 0..(task.indices.y.size - 1) :
             \A x \in 0..(task.indices.x.size - 1) :
               AlphaAt(task, task.posted[r].tileData, y, x) =
                 IF FirstBandNodata(task, y, x) /\ task.msg.maskNodata
                   THEN Px(0) ELSE OpaqueValue(task.msg)

\* three bands, the first band's read not the last to settle; one pixel is
\* no-data in the first band only and transparent, another is no-data in
\* another band only and opaque
C25_Witness ==
  /\ TileOpened
  /\ Len(tasks[1].msg.bands) = 3
  /\ tasks[1].format.hasAlpha
  /\ tasks[1].posted # <<>> /\ tasks[1].posted[1].success
  /\ last.op = "worker.get" /\ last.arg # Num(1)
  /\ \E y \in 0..(tasks[1].indices.y.size - 1) :
       \E x \in 0..(tasks[1].indices.x.size - 1) :
         /\ FirstBandNodata(tasks[1], y, x)
         /\ \A b \in 1..2 : ~OtherBandNodata(tasks[1], b, y, x)
         /\ AlphaAt(tasks[1], tasks[1].posted[1].tileData, y, x) = Px(0)
  /\ \E y \in 0..(tasks[1].indices.y.size - 1) :
       \E x \in 0..(tasks[1].indices.x.size - 1) :
         /\ ~FirstBandNodata(tasks[1], y, x)
         /\ \E b \in 1..2 : OtherBandNodata(tasks[1], b, y, x)
         /\ AlphaAt(tasks[1], tasks[1].posted[1].tileData, y, x)
              = OpaqueValue(tasks[1].msg)


\* C30: when the value array opened by the worker has fewer than 4
\* dimensions, the worker posts an error response for that tile before
\* issuing any band read and never posts a success response for it.
C30_FewDimensionsAbort ==
  (Len(tasks) = 1 /\ Len(tasks[1].shape) < 4) =>
    /\ tasks[1].issued = <<>>
    /\ \A r \in DOMAIN tasks[1].posted : ~tasks[1].posted[r].success
    /\ tasks[1].pc # "opening" =>
         \E r \in DOMAIN tasks[1].posted : ~tasks[1].posted[r].success

\* the statistics the user passed to the creation, and what the claim looks at
UserStatistics == creation.options.statistics
StatisticsResolved == creation.pc \in {"construct", "created"}

\* every entry has min and max and only scalar values
ScalarEntries(entries) ==
  \A i \in DOMAIN entries :
     /\ entries[i]["min"].present /\ entries[i]["max"].present
     /\ \A k \in StatKeys : entries[i][k].present => ~entries[i][k].isArray

\* every entry has min and max and only arrays of timeCount values
PerTimeEntries(entries, timeCount) ==
  \A i \in DOMAIN entries :
     /\ entries[i]["min"].present /\ entries[i]["max"].present
     /\ \A k \in StatKeys :
          entries[i][k].present =>
            entries[i][k].isArray /\ Len(entries[i][k].vals) = timeCount

\* C26: Statistics-shape detection.  Whenever the resolution of a creation
\* returned with statistics given by the user, the recorded format is case 1
\* for an object; case 2 for an array of scalar-valued objects whose length is
\* the size of the band composition; case 4 for an array of that length whose
\* values are arrays as long as the timestamps; and this also when the length
\* equals the total band count of the value array.  An object or an array of
\* scalar-valued objects that has min and max everywhere is never rejected
\* for its statistics.
C26_StatisticsShapeDetection ==
  /\ (StatisticsResolved /\ UserStatistics.kind # "undef") =>
       LET entries == UserStatistics.entries
           size == Len(creation.resolved.bands)
           timeCount == Len(creation.resolved.timestamps)
           format == creation.resolved.statisticsFormat
       IN /\ UserStatistics.kind = "object" =>
               format = "case1" /\ ScalarEntries(entries)
          /\ (UserStatistics.kind = "array" /\ Len(entries) = size
                /\ ScalarEntries(entries)) => format = "case2"
          /\ (UserStatistics.kind = "array" /\ Len(entries) = size
                /\ PerTimeEntries(entries, timeCount)) => format = "case4"
          /\ format \in {"case2", "case3"} => ScalarEntries(entries)
          /\ format \in {"case4", "case5"} => PerTimeEntries(entries, timeCount)
  /\ (creation.pc = "rejected" /\ creation.error = "statistics") =>
       ~(/\ UserStatistics.kind \in {"object", "array"}
         /\ Len(UserStatistics.entries) > 0
         /\ ScalarEntries(UserStatistics.entries))

\* a source created with three per-time statistics entries for a composition
\* of three bands out of a value array of three bands: case 4
C26_Witness ==
  /\ creation.pc = "created"
  /\ UserStatistics.kind = "array"
  /\ Len(UserStatistics.entries) = Len(config_.bands)
  /\ Len(config_.bands) = 3
  /\ creation.valueArrayMetadata.shape[2] = 3
  /\ PerTimeEntries(UserStatistics.entries, Len(config_.timestamps))
  /\ config_.statisticsFormat = "case4"

\* the table of an accepted pair, and the resolution given for zoom z
TableGenerated == creation.pc = "generated"
FullAt(z) == creation.fullResolutions[z + 1]
GivenResolution(z) ==
  ResolutionOf(creation.resolutions[SupportedIdx(creation.zoomLevels, z)])

TableDefined ==
  /\ Len(creation.fullResolutions) = SeqMax(creation.zoomLevels) + 1
  /\ \A z \in 0..SeqMax(creation.zoomLevels) : PxFinite(FullAt(z))

TableNonIncreasing ==
  \A z \in 0..(SeqMax(creation.zoomLevels) - 1) : ~PxLess(FullAt(z), FullAt(z + 1))

TableKeepsSupported ==
  \A i \in DOMAIN creation.zoomLevels :
     LET z == creation.zoomLevels[i]
     IN FullAt(z) = IF z = 0 THEN PxAdd(GivenResolution(z), PxHalf)
                             ELSE GivenResolution(z)

\* C27: for every (zoomLevels, resolutions) pair the validator accepts, the
\* generated table has a number for every zoom from 0 to the highest zoom
\* level, never increases from one zoom to the next, and holds the given
\* resolution at every supported zoom (at zoom 0 the given resolution plus
\* the 0.5 that makes the first entry unique).
C27_FullResolutionTable ==
  TableGenerated => TableDefined /\ TableNonIncreasing /\ TableKeepsSupported

\* the distance between a timestamp and a time value of its type:
\* [inf, d], inf for a string id that is not the value
TimeDistance(ts, tv) ==
  IF ts.type = "string" THEN [inf |-> ts.v # tv.v, d |-> 0]
  ELSE [inf |-> FALSE, d |-> IF ts.v < tv.v THEN tv.v - ts.v ELSE ts.v - tv.v]

NotFarther(a, b) == b.inf \/ (~a.inf /\ a.d <= b.d)

\* index i (0-based) holds a timestamp as near to tv as any other
NearestTo(i, tv) ==
  /\ i \in 0..(Len(timestamps_) - 1)
  /\ \A j \in DOMAIN timestamps_ :
        NotFarther(TimeDistance(timestamps_[i + 1], tv),
                   TimeDistance(timestamps_[j], tv))

\* C28: setCurrentTime(t) jumps to the nearest timestamp.  After a call with
\* a time value of the type of the dataset's timestamps (the integer id 0
\* included) the current time index is an index whose timestamp is at minimal
\* distance from the value; after a call with a value of another type the
\* current time index is the one before the call.
C28_SetCurrentTimeNearest ==
  [][last'.op = "setCurrentTime" =>
       IF last'.argTime.type = timestamps_[1].type
         THEN NearestTo(currentTimeIndex_', last'.argTime)
         ELSE currentTimeIndex_' = currentTimeIndex_]_vars

\* C29: no operation of a created source (setCurrentTimeIndex,
\* setCurrentTime, setBands, time navigation, tile loading, the getCurrent*
\* accessors) changes a field of the resolved configuration; setBands changes
\* the current band list and leaves the bands of the configuration, the
\* timestamps and the current time index as they were.
C29_ConfigurationNeverChanges ==
  [][/\ config_' = config_
     /\ last'.op = "setBands" =>
          /\ config_'.bands = config_.bands
          /\ timestamps_' = timestamps_
          /\ currentTimeIndex_' = currentTimeIndex_]_vars

\* setBands has replaced the current band list of a source whose
\* configuration still holds the bands it was created with, and a tile has
\* been loaded since
C29_Witness ==
  /\ bands_ # config_.bands
  /\ \E r \in DOMAIN requests : requests[r].outcome = "resolved"
  /\ last.op = "setBands" /\ ~last.threw

\* the read range of one axis lies within the array and covers at most a tile
AxisWithinArray(range, dim, tileSize) ==
  /\ ~range.nan
  /\ 0 <= range.lo /\ range.lo <= range.hi /\ range.hi <= dim
  /\ 0 <= range.size /\ range.size <= tileSize

\* C31: for every tile with 0 <= x <= maxX and 0 <= y <= maxY, every tile
\* size and every array height and width, the read range computed on each
\* axis lies within the array, 0 <= start <= end <= dimension, and the covered
\* width and height are between 0 and the tile size.
C31_RangeWithinArray ==
  \A i \in DOMAIN tasks :
     tasks[i].pc = "computed" =>
       /\ AxisWithinArray(tasks[i].indices.x, tasks[i].arrayShape[4],
                          tasks[i].tileSize)
       /\ AxisWithinArray(tasks[i].indices.y, tasks[i].arrayShape[3],
                          tasks[i].tileSize)

\* the total band count of the value array the creation opened
TotalBandCount == creation.valueArrayMetadata.shape[2]

\* C32: statistics the user gives as an array are classified per dataset
\* band (case 3 for scalar values, case 5 for array values) only when the
\* array has one entry per band of the dataset; an array whose length is
\* neither the size of the band composition nor the total band count is not
\* accepted as any of the five cases.
C32_PerDatasetBandLength ==
  (StatisticsResolved /\ UserStatistics.kind = "array") =>
     /\ creation.resolved.statisticsFormat \in {"case3", "case5"} =>
          Len(UserStatistics.entries) = TotalBandCount
     /\ Len(UserStatistics.entries) \in {Len(creation.resolved.bands), TotalBandCount}

\* reference reductions over the statistics of the configuration
SetMin(S) == CHOOSE m \in S : \A x \in S : m <= x
SetMax(S) == CHOOSE m \in S : \A x \in S : m >= x
ValuesOf(sv) == {sv.vals[t] : t \in DOMAIN sv.vals}
MinKeyOf(e) == e[config_.normalize.min_key]
MaxKeyOf(e) == e[config_.normalize.max_key]

ReferenceGlobal ==
  Range(Num(SetMin(UNION {ValuesOf(MinKeyOf(config_.statistics[i])) :
                            i \in DOMAIN config_.statistics})),
        Num(SetMax(UNION {ValuesOf(MaxKeyOf(config_.statistics[i])) :
                            i \in DOMAIN config_.statistics})))

ReferencePerTime(t) ==
  Range(Num(SetMin({MinKeyOf(config_.statistics[i]).vals[t] :
                      i \in DOMAIN config_.statistics})),
        Num(SetMax({MaxKeyOf(config_.statistics[i]).vals[t] :
                      i \in DOMAIN config_.statistics})))

ReferenceAllTimes(e) ==
  Range(Num(SetMin(ValuesOf(MinKeyOf(e)))), Num(SetMax(ValuesOf(MaxKeyOf(e)))))

\* the statistics entry that describes the band in slot j of band list bands
DescribingEntry(bands, j) ==
  IF config_.statisticsFormat \in {"case2", "case4"}
    THEN config_.statistics[j]
    ELSE config_.statistics[bands[j] + 1]

PerTimeStatistics == config_.statisticsFormat \in {"case4", "case5"}

\* the statistics case has no aggregate for the strategy
NoAggregateFor(format, strategy) ==
  \/ format = "case1" /\ strategy \in {"global_band_per_time", "per_band_global_time"}
  \/ format \in {"case2", "case3"} /\ strategy = "global_band_per_time"

DtypeRange ==
  [min |-> GetDtypeLimits(config_.dtype).min, max |-> GetDtypeLimits(config_.dtype).max]

\* C33: for per-time statistics (cases 4 and 5) the aggregates computed at
\* configuration time are the reference reductions: the global range is the
\* minimum of every min value and the maximum of every max value over all
\* entries and times; entry t of the per-timestep aggregate is the min/max
\* across the entries at time t; the per-band aggregate of a band is the
\* min/max across all times of the entry that describes the band.  When the
\* statistics case has no aggregate for the strategy, the normalization
\* ranges of the cache are the dtype range.
C33_AggregatesAreReductions ==
  /\ (PerTimeStatistics /\ config_.normalize.strategy # "per_band_per_time") =>
        config_.globalStatistics.global = ReferenceGlobal
  /\ (PerTimeStatistics /\ config_.normalize.strategy = "global_band_per_time") =>
        /\ Len(config_.globalStatistics.globalBandPerTime) = Len(config_.timestamps)
        /\ \A t \in DOMAIN config_.timestamps :
              config_.globalStatistics.globalBandPerTime[t] = ReferencePerTime(t)
  /\ (PerTimeStatistics /\ config_.normalize.strategy = "per_band_global_time") =>
        /\ Len(config_.globalStatistics.perBandGlobalTime) = Len(config_.bands)
        /\ \A j \in DOMAIN config_.bands :
              config_.globalStatistics.perBandGlobalTime[j] =
                ReferenceAllTimes(DescribingEntry(config_.bands, j))
  /\ (resolvedCache_.valid
        /\ NoAggregateFor(config_.statisticsFormat, config_.normalize.strategy)) =>
        \A i \in DOMAIN resolvedCache_.normalization.vals :
           resolvedCache_.normalization.vals[i] = DtypeRange

\* the range and the stretch parameters that the statistics s of one band
\* slot give (s is null for a slot without statistics)
RangeFromStatistics(s) ==
  IF s.isNull THEN DtypeRange
  ELSE [min |-> IF s.vals[config_.normalize.min_key].kind # "undef"
                  THEN s.vals[config_.normalize.min_key] ELSE DtypeRange.min,
        max |-> IF s.vals[config_.normalize.max_key].kind # "undef"
                  THEN s.vals[config_.normalize.max_key] ELSE DtypeRange.max]

StretchFromStatistics(s) ==
  IF s.isNull \/ s.vals[config_.drc.mean_key].kind = "undef"
             \/ s.vals[config_.drc.std_key].kind = "undef"
    THEN [mean |-> Num(0), std |-> Num(1), slope |-> config_.drc.slope]
    ELSE [mean |-> s.vals[config_.drc.mean_key], std |-> s.vals[config_.drc.std_key],
          slope |-> config_.drc.slope]

\* normalization and displayRenderParams are the ones of the statistics of
\* time index idx and band list bands
DerivedFromStatisticsOf(normalization, displayRenderParams, idx, bands) ==
  LET statistics == ResolveCurrentStatistics(config_, idx, bands)
  IN /\ config_.normalize.strategy = "per_band_per_time" =>
          /\ Len(normalization.vals) = Len(bands)
          /\ \A i \in DOMAIN bands :
                normalization.vals[i] = RangeFromStatistics(statistics.vals[i])
     /\ (config_.renderType = "display" /\ config_.drc.strategy = "std_stretch") =>
          /\ Len(displayRenderParams.stretchParams) = Len(bands)
          /\ \A i \in DOMAIN bands :
                displayRenderParams.stretchParams[i] =
                  StretchFromStatistics(statistics.vals[i])

\* C34: a recomputation of the cache derives the per-band-per-time
\* normalization ranges and the std-stretch parameters from the statistics of
\* the current time index and bands, resolved in that same recomputation, and
\* never from the statistics an earlier view state left in the cache; a tile
\* request posted for the view state the cache was recomputed for carries
\* those ranges and parameters.
C34_RangesFromFreshStatistics ==
  [][/\ (resolvedCache_'.valid /\ resolvedCache_' # resolvedCache_) =>
          DerivedFromStatisticsOf(resolvedCache_'.normalization,
                                  resolvedCache_'.displayRenderParams,
                                  currentTimeIndex_', bands_')
     /\ (last'.op = "tileLoader.post" /\ resolvedCache_.valid) =>
          DerivedFromStatisticsOf(last'.msg.normalization,
                                  last'.msg.displayRenderParams,
                                  last'.msg.timeIndex, last'.msg.bands)]_vars

\* a tile request posted after the time index and the bands changed on a
\* source that had a valid cache for its first view state: its ranges are those
\* of the second timestamp of dataset band 0
C34_Witness ==
  /\ last.op = "tileLoader.post"
  /\ config_.statisticsFormat = "case5"
  /\ config_.normalize.strategy = "per_band_per_time"
  /\ config_.bands = <<1>>
  /\ last.msg.timeIndex = 1 /\ last.msg.bands = <<0>>
  /\ last.msg.normalization.vals[1] = [min |-> Num(2), max |-> Num(12)]
  /\ last.msg.displayRenderParams.stretchParams[1].mean = Num(6)

\* slot j of band list bands has a statistics entry that describes its band
HasDescribingEntry(bands, j) ==
  IF config_.statisticsFormat \in {"case2", "case4"}
    THEN j <= Len(config_.statistics)
    ELSE bands[j] < Len(config_.statistics)

\* C35: under the per_band_global_time strategy the normalization range in
\* slot i of every tile request is the all-time min/max of the statistics
\* entry that describes the band shown in slot i (entry i for per-composition
\* statistics, entry bands[i] for per-dataset-band statistics), also after
\* setBands has changed the current bands.
C35_PerBandRangeFollowsBands ==
  [][(/\ last'.op = "tileLoader.post"
      /\ resolvedCache_.valid
      /\ config_.normalize.strategy = "per_band_global_time"
      /\ config_.statisticsFormat \in {"case2", "case3", "case4", "case5"}) =>
       LET m == last'.msg
       IN \A i \in DOMAIN m.bands :
             HasDescribingEntry(m.bands, i) =>
               LET reference == ReferenceAllTimes(DescribingEntry(m.bands, i))
               IN m.normalization.vals[i] =
                    [min |-> reference.min, max |-> reference.max]]_vars

\* the scalar no-data value of the configuration, applied to every band slot
ScalarNodata == config_.nodata.kind = "num" /\ config_.nodataFormat = "global"
ScalarPerBand(bands) == Arr([i \in DOMAIN bands |-> Num(config_.nodata.vals[1])])

\* C36: for every accepted scalar no-data value v, the value 0 included, the
\* no-data of a valid cache is an array holding v once per current band,
\* every tile request carries that array, and the worker classifies a pixel
\* equal to v as no-data.
C36_ScalarNodataApplied ==
  [][(/\ last'.op = "tileLoader.post"
      /\ resolvedCache_.valid
      /\ ScalarNodata) =>
       /\ resolvedCache_.nodata = ScalarPerBand(bands_)
       /\ last'.msg.nodata = ScalarPerBand(last'.msg.bands)
       /\ IsNodata(Px(config_.nodata.vals[1]), Px(config_.nodata.vals[1]))]_vars

\* the requests that hold a worker: acquired or posted, not yet settled
InFlight == {r \in DOMAIN requests : requests[r].pc # "settled"}
InPool(w) == \E i \in DOMAIN workerPool_ : workerPool_[i] = w
PoolHasNoDuplicate ==
  \A i, j \in DOMAIN workerPool_ : i # j => workerPool_[i] # workerPool_[j]

\* C37: each worker is owned by at most one party: it is never in the idle
\* pool twice, never in the pool while a request it was handed to awaits its
\* response, and never handed to two requests in flight at the same time,
\* also when the message handler and the error handler both fire for one
\* request.
C37_SingleOwner ==
  /\ PoolHasNoDuplicate
  /\ \A r \in InFlight : ~InPool(requests[r].worker)
  /\ \A r1, r2 \in InFlight : r1 # r2 => requests[r1].worker # requests[r2].worker

\* the step is a tileLoader call that acquired a worker for a new request
Acquires == last'.op = "tileLoader" /\ Len(requests') = Len(requests) + 1

\* C38: a terminated worker (by terminateAllWorkers, or handed back to a full
\* pool) is never in the idle pool and never handed to a later request;
\* immediately after terminateAllWorkers the pool is empty, and the workers
\* of requests in flight are not terminated by it.
C38_TerminatedNeverReused ==
  [][/\ \A w \in DOMAIN workers' :
          workers'[w].terminated =>
            ~\E i \in DOMAIN workerPool_' : workerPool_'[i] = w
     /\ Acquires => ~workers'[requests'[Len(requests')].worker].terminated
     /\ last'.op = "terminateAllWorkers" =>
          /\ workerPool_' = <<>>
          /\ \A r \in InFlight :
                workers'[requests[r].worker].terminated =
                  workers[requests[r].worker].terminated]_vars

\* const tileIndex = (y * tileSize + x) * channelCount + bandArrayIndex
TileIndex(task, y, x, bandArrayIndex) ==
  (y * task.msg.tileSize + x) * task.format.channelCount + bandArrayIndex

\* the writes of the band loops: covered pixel (y, x), band slot b (0-based)
BandWrites(task) ==
  {<<y, x, b>> : y \in 0..(task.indices.y.size - 1),
                 x \in 0..(task.indices.x.size - 1),
                 b \in 0..(Len(task.msg.bands) - 1)}

\* the alpha slots of the pixels of the tile
AlphaSlots(task) ==
  {(p + 1) * task.format.channelCount - 1 :
      p \in 0..(task.msg.tileSize * task.msg.tileSize - 1)}

\* C39: the concurrently running band computations of one tile never write
\* the same buffer element: for covered pixels (row, col) and band slots b
\* the write index (row*tileSize + col)*channelCount + b is within the
\* buffer, distinct for distinct (row, col, b), and never the alpha slot of
\* any pixel, so that the returned buffer holds at each write index the value
\* its band computed, in whatever order the bands complete.
C39_DisjointBandWrites ==
  TileOpened =>
    LET task == tasks[1]
    IN /\ \A w \in BandWrites(task) :
            /\ TileIndex(task, w[1], w[2], w[3]) >= 0
            /\ TileIndex(task, w[1], w[2], w[3]) < Len(task.tileData)
            /\ task.format.hasAlpha =>
                 TileIndex(task, w[1], w[2], w[3]) \notin AlphaSlots(task)
       /\ \A w1, w2 \in BandWrites(task) :
            w1 # w2 => TileIndex(task, w1[1], w1[2], w1[3])
                         # TileIndex(task, w2[1], w2[2], w2[3])
       /\ \A r \in DOMAIN task.posted :
            task.posted[r].success =>
              \A w \in BandWrites(task) :
                At0(task.posted[r].tileData, TileIndex(task, w[1], w[2], w[3])) =
                  StoreAs(task.format.ArrayType,
                          ProcessPixel(task.msg, w[3],
                                       RawAt(task, w[3], w[1], w[2])).value)

\* a three-band tile with an alpha channel and a fully covered tile, posted
\* after its bands completed with the first band slot last
C39_Witness ==
  /\ TileOpened
  /\ Len(tasks[1].msg.bands) = 3
  /\ tasks[1].format.hasAlpha
  /\ tasks[1].format.channelCount = 4
  /\ tasks[1].indices.x.size = TileSize /\ tasks[1].indices.y.size = TileSize
  /\ tasks[1].posted # <<>> /\ tasks[1].posted[1].success
  /\ last.op = "worker.get" /\ last.arg = Num(1)

\* n successive nextTimestep() calls
RECURSIVE NextTimestepRepeated(_, _)
NextTimestepRepeated(st, n) ==
  IF n = 0 THEN st ELSE NextTimestepRepeated(NextTimestepOn(st).st, n - 1)

\* C40: time navigation round-trips: when nextTimestep() returns true, an
\* immediately following previousTimestep() returns true and restores the
\* original time index, and symmetrically for previousTimestep() followed by
\* nextTimestep(); and for every n >= 0, nextTimesteps(n) has the same effect
\* on the time index as n successive nextTimestep() calls.
C40_NavigationRoundTrips ==
  [][/\ (last'.op = "nextTimestep" /\ last'.ret = "true") =>
          LET back == PreviousTimestepOn(Here')
          IN back.ret = "true" /\ back.st.idx = currentTimeIndex_
     /\ (last'.op = "previousTimestep" /\ last'.ret = "true") =>
          LET forth == NextTimestepOn(Here')
          IN forth.ret = "true" /\ forth.st.idx = currentTimeIndex_
     /\ (last'.op = "nextTimesteps" /\ last'.arg.kind = "int"
           /\ last'.arg.val >= 0) =>
          /\ ~last'.threw
          /\ currentTimeIndex_' = NextTimestepRepeated(Here, last'.arg.val).idx]_vars

\* nextTimesteps(2) one step before the last index of three timesteps: the
\* move is capped like the second of two nextTimestep() calls
C40_Witness ==
  /\ last.op = "nextTimesteps" /\ last.arg = Num(2) /\ last.ret = "true"
  /\ Len(timestamps_) = 3
  /\ currentTimeIndex_ = LastIndex
  /\ PreviousTimestepOn(Here).st.idx = 1

====
